---- MODULE Spec2Model ----
(***************************************************************************)
(* A model of the two recurring mechanisms of miaostudy/ScholarData:       *)
(*   - the bounded retry loops around remote calls (aminor.py,             *)
(*     books_llm.py, knowledge_graph/gen.py, CSrankings/validate_commit.py)*)
(*   - the JSON file caches and their save routines (aminor.py and the     *)
(*     direct-write caches of books_llm.py).                               *)
(* Each mechanism has its own specification over the same variables; the   *)
(* variables of the other mechanism stay at their initial value.           *)
(***************************************************************************)
EXTENDS Integers, Sequences, FiniteSets, TLC

VARIABLES
    \* ---- retry loops ----
    loop,       \* which retry loop runs
    budget,     \* the loop's retry count (the literal 3 / API_RETRY / max_retries)
    rpc,        \* position of the loop
    retry,      \* the loop variable: iterations finished so far
    attempts,   \* invocations of the remote operation so far
    sleeps,     \* time.sleep calls so far
    hist,       \* outcome of every invocation, in order
    result,     \* what the loop hands back (0: None / absent)
    \* ---- matching_name_with_dblp ----
    mname,      \* the name looked up
    mpc,        \* position of the call
    mresp,      \* the responses to its requests, in order
    mslept,     \* seconds slept so far
    mret,       \* what the call returned (-1: nothing yet)
    \* ---- file caches ----
    names,      \* directory: path -> inode (0: no such file)
    data,       \* inode -> content, a sequence of JSON tokens
    threads,    \* the threads of the process that run
    objOf,      \* thread -> the controller object it calls
    remote,     \* thread -> the values its remote fetches can return
    asks,       \* thread -> the keys its calls ask for
    shared,     \* the dict an AMinerAnalyzer keeps in memory (self.keywords_cache)
    lockOf,     \* controller object -> holder of its threading.Lock ("free")
    tpc,        \* thread -> position
    key,        \* thread -> key of its last call
    val,        \* thread -> value fetched for that key (0: none yet)
    mem,        \* thread -> the mapping it holds in memory
    fd,         \* thread -> inode of the file it has open for writing (0: none)
    off,        \* thread -> tokens written through fd
    ret,        \* thread -> value its last finished call returned (0: None)
    saved,      \* thread -> how the save of its last call ended
    \* ---- history variables (read by no action) ----
    before,     \* thread -> content of the cache when its save began
    interrupted,\* <<content before the save>> of a save cut by the last crash
    stored,     \* key -> value of the last put of that key that was saved
    lastLock,   \* thread that acquired a lock last
    overlap     \* the last puts of the two threads overlapped in time

retryVars == <<loop, budget, rpc, retry, attempts, sleeps, hist, result>>

cacheVars == <<names, data, threads, objOf, remote, asks, shared, lockOf, tpc, key, val, mem,
               fd, off, ret, saved, before, interrupted, stored, lastLock,
               overlap>>

matchVars == <<mname, mpc, mresp, mslept, mret>>

(* ---- the scripts around the caches: variables and frames ---- *)

VARIABLES
    \* ---- AMinerAnalyzer.load_authors_data ----
    authors_list, \* the authors to load, in order
    lpc, \* position of load_authors_data
    apos, \* index of the author of the current iteration
    author_papers, \* what get_author_papers returned in this iteration
    got, \* <<author, what get_author_papers returned for them>> (history)
    batched, \* authors batch_save_papers was called for
    all_papers  \* the result: <<author, paper id>> of every paper added

VARIABLES
    \* ---- PaperKnowledgeGraphBuilder.extract_and_merge_keywords ----
    paper_list, \* the papers of the run, in order
    kpc, \* position of extract_and_merge_keywords
    kpos, \* index of the paper of the current iteration
    kforce, \* force_refresh of the run
    keywords_data, \* self.keywords_data: paper -> stored keywords, and whether "all_keywords" is set
    keywords_file, \* keywords_cache.json, as the last successful save left it
    llm_sent, \* paper -> times it was sent to the LLM (history)
    runs  \* calls of extract_and_merge_keywords so far

VARIABLES
    \* ---- PaperKnowledgeGraphBuilder.load_paper_data ----
    all_json_files, \* the paper files of papers_dir, in the order of os.listdir
    unreadable, \* the papers whose file json.load rejects
    dpc, \* position of load_paper_data
    dpos, \* index of the file of the current iteration
    dforce, \* force_refresh of the run
    paper_data, \* self.paper_data: the ids of the papers it holds
    paper_cache, \* paper_cache.json: the ids it holds
    reported, \* papers reported as read so far (history)
    loads  \* calls of load_paper_data so far

VARIABLES
    \* ---- PDFTOCExtractorWithLLM.process_all_books ----
    pdf_files, \* the PDF files of books_dir, in the order of os.listdir
    total_pages, \* file -> number of pages, or Unreadable when PdfReader raises
    bpc, \* position of process_all_books
    bidx, \* index of the file of the current iteration
    page_num, \* page_num of the page loop
    in_toc_region, \* in_toc_region
    all_toc_items, \* all_toc_items: an item is written as the page it was extracted from
    book_cache, \* self.book_cache and toc_cache.json: <<filename, toc>> pairs
    page_cache, \* self.page_cache and page_cache.json: <<filename, page>> -> entry
    failed_records, \* self.failed_records and failed_books.json
    scanned, \* <<page, outcome>> of every page the scan of this book looked at (history)
    ended, \* the page at which the scan of this book ended, 0 while it has not (history)
    bruns  \* calls of process_all_books so far

VARIABLES
    \* ---- validate_commit.py main ----
    pr_metadata_file, \* the file of sys.argv[1]: valid, invalid or unreadable
    diff_file, \* the file of sys.argv[2]: valid, invalid or unreadable
    api_key, \* whether OPENAI_API_KEY is set
    vpc, \* position of the script
    remove_stale, \* content of remove_stale.txt, or absent
    pr_metadata_valid, \* pr_metadata_valid
    csv_valid, \* csv_valid
    audit_result, \* audit_result: "" or the kind of list run_audit returned
    vretries, \* retries_remaining of the script
    audit_errors, \* attempts of run_audit that raised (history)
    exit_status  \* how the process ended

VARIABLES
    \* ---- IEEEScraper._click_and_wait ----
    click_retry, \* the retry argument of the call
    cstack, \* the retry argument of every active call of _click_and_wait, innermost last
    cpc, \* position of the innermost call
    native_clicks, \* native click attempts of the call so far (history)
    js_clicks, \* JavaScript click attempts of the call so far (history)
    click_result  \* what the call returned, or how it was left

VARIABLES
    \* ---- IEEEScraper.get_paper_links_from_issue ----
    gpc, \* position of get_paper_links_from_issue
    total_papers, \* total_papers: the announced total, 0 when none was found
    all_paper_ids, \* all_paper_ids
    current_page, \* current_page
    paper_ids, \* paper_ids: what _extract_paper_ids_from_page returned last
    new_ids_count, \* new_ids_count
    issue_cache, \* json_cache/issues/issue_<isnumber>.json: absent, or the saved list
    returned_ids, \* what the last call returned
    pages_done, \* result pages processed by the call (history)
    moved  \* what the last _go_to_next_page returned (history)

authorsVars == <<authors_list, lpc, apos, author_papers, got, batched, all_papers>>

keywordsVars == <<paper_list, kpc, kpos, kforce, keywords_data, keywords_file, llm_sent, runs>>

loadVars == <<all_json_files, unreadable, dpc, dpos, dforce, paper_data, paper_cache, reported, loads>>

booksVars == <<pdf_files, total_pages, bpc, bidx, page_num, in_toc_region, all_toc_items, book_cache, page_cache, failed_records, scanned, ended, bruns>>

validateVars == <<pr_metadata_file, diff_file, api_key, vpc, remove_stale, pr_metadata_valid, csv_valid, audit_result, vretries, audit_errors, exit_status>>

clickVars == <<click_retry, cstack, cpc, native_clicks, js_clicks, click_result>>

issueVars == <<gpc, total_papers, all_paper_ids, current_page, paper_ids, new_ids_count, issue_cache, returned_ids, pages_done, moved>>

scriptVars == <<authorsVars, keywordsVars, loadVars, booksVars, validateVars, clickVars, issueVars>>

loopVars == <<retryVars, matchVars, scriptVars>>

vars == <<retryVars, matchVars, cacheVars, scriptVars>>

\* load_authors_data has not been called.
AuthorsAtRest ==
    /\ authors_list = <<>>
    /\ lpc = "off"
    /\ apos = 0
    /\ author_papers = [found |-> FALSE, keys |-> {}, papers |-> {}]
    /\ got = {}
    /\ batched = {}
    /\ all_papers = {}

\* extract_and_merge_keywords has not been called.
KeywordsAtRest ==
    /\ paper_list = <<>>
    /\ kpc = "off"
    /\ kpos = 0
    /\ kforce = FALSE
    /\ keywords_data = <<>>
    /\ keywords_file = <<>>
    /\ llm_sent = <<>>
    /\ runs = 0

\* load_paper_data has not been called.
LoadAtRest ==
    /\ all_json_files = <<>>
    /\ unreadable = {}
    /\ dpc = "off"
    /\ dpos = 0
    /\ dforce = FALSE
    /\ paper_data = {}
    /\ paper_cache = {}
    /\ reported = {}
    /\ loads = 0

\* process_all_books has not been called.
BooksAtRest ==
    /\ pdf_files = <<>>
    /\ total_pages = <<>>
    /\ bpc = "off"
    /\ bidx = 0
    /\ page_num = 0
    /\ in_toc_region = FALSE
    /\ all_toc_items = <<>>
    /\ book_cache = {}
    /\ page_cache = <<>>
    /\ failed_records = <<>>
    /\ scanned = {}
    /\ ended = 0
    /\ bruns = 0

\* validate_commit.py has not been started.
ValidateAtRest ==
    /\ pr_metadata_file = "none"
    /\ diff_file = "none"
    /\ api_key = FALSE
    /\ vpc = "off"
    /\ remove_stale = "absent"
    /\ pr_metadata_valid = FALSE
    /\ csv_valid = FALSE
    /\ audit_result = ""
    /\ vretries = 0
    /\ audit_errors = 0
    /\ exit_status = "running"

\* _click_and_wait has not been called.
ClickAtRest ==
    /\ click_retry = 0
    /\ cstack = <<>>
    /\ cpc = "off"
    /\ native_clicks = 0
    /\ js_clicks = 0
    /\ click_result = "none"

\* get_paper_links_from_issue has not been called.
IssueAtRest ==
    /\ gpc = "off"
    /\ total_papers = 0
    /\ all_paper_ids = <<>>
    /\ current_page = 0
    /\ paper_ids = <<>>
    /\ new_ids_count = 0
    /\ issue_cache = [saved |-> FALSE, paper_ids |-> <<>>]
    /\ returned_ids = <<>>
    /\ pages_done = 0
    /\ moved = FALSE

\* None of the scripts runs.
ScriptsAtRest ==
    /\ AuthorsAtRest
    /\ KeywordsAtRest
    /\ LoadAtRest
    /\ BooksAtRest
    /\ ValidateAtRest
    /\ ClickAtRest
    /\ IssueAtRest

\* What AMinerAnalyzer.load_authors_data leaves alone.
authorsOthers == <<retryVars, matchVars, cacheVars, keywordsVars, loadVars, booksVars, validateVars, clickVars, issueVars>>

\* The other scripts do not run while AMinerAnalyzer.load_authors_data does.
AuthorsOthersAtRest ==
    /\ KeywordsAtRest
    /\ LoadAtRest
    /\ BooksAtRest
    /\ ValidateAtRest
    /\ ClickAtRest
    /\ IssueAtRest

\* What PaperKnowledgeGraphBuilder.extract_and_merge_keywords leaves alone.
keywordsOthers == <<retryVars, matchVars, cacheVars, authorsVars, loadVars, booksVars, validateVars, clickVars, issueVars>>

\* The other scripts do not run while PaperKnowledgeGraphBuilder.extract_and_merge_keywords does.
KeywordsOthersAtRest ==
    /\ AuthorsAtRest
    /\ LoadAtRest
    /\ BooksAtRest
    /\ ValidateAtRest
    /\ ClickAtRest
    /\ IssueAtRest

\* What PaperKnowledgeGraphBuilder.load_paper_data leaves alone.
loadOthers == <<retryVars, matchVars, cacheVars, authorsVars, keywordsVars, booksVars, validateVars, clickVars, issueVars>>

\* The other scripts do not run while PaperKnowledgeGraphBuilder.load_paper_data does.
LoadOthersAtRest ==
    /\ AuthorsAtRest
    /\ KeywordsAtRest
    /\ BooksAtRest
    /\ ValidateAtRest
    /\ ClickAtRest
    /\ IssueAtRest

\* What PDFTOCExtractorWithLLM.process_all_books leaves alone.
booksOthers == <<retryVars, matchVars, cacheVars, authorsVars, keywordsVars, loadVars, validateVars, clickVars, issueVars>>

\* The other scripts do not run while PDFTOCExtractorWithLLM.process_all_books does.
BooksOthersAtRest ==
    /\ AuthorsAtRest
    /\ KeywordsAtRest
    /\ LoadAtRest
    /\ ValidateAtRest
    /\ ClickAtRest
    /\ IssueAtRest

\* What validate_commit.py main leaves alone.
validateOthers == <<retryVars, matchVars, cacheVars, authorsVars, keywordsVars, loadVars, booksVars, clickVars, issueVars>>

\* The other scripts do not run while validate_commit.py main does.
ValidateOthersAtRest ==
    /\ AuthorsAtRest
    /\ KeywordsAtRest
    /\ LoadAtRest
    /\ BooksAtRest
    /\ ClickAtRest
    /\ IssueAtRest

\* What IEEEScraper._click_and_wait leaves alone.
clickOthers == <<retryVars, matchVars, cacheVars, authorsVars, keywordsVars, loadVars, booksVars, validateVars, issueVars>>

\* The other scripts do not run while IEEEScraper._click_and_wait does.
ClickOthersAtRest ==
    /\ AuthorsAtRest
    /\ KeywordsAtRest
    /\ LoadAtRest
    /\ BooksAtRest
    /\ ValidateAtRest
    /\ IssueAtRest

\* What IEEEScraper.get_paper_links_from_issue leaves alone.
issueOthers == <<retryVars, matchVars, cacheVars, authorsVars, keywordsVars, loadVars, booksVars, validateVars, clickVars>>

\* The other scripts do not run while IEEEScraper.get_paper_links_from_issue does.
IssueOthersAtRest ==
    /\ AuthorsAtRest
    /\ KeywordsAtRest
    /\ LoadAtRest
    /\ BooksAtRest
    /\ ValidateAtRest
    /\ ClickAtRest

(* ---- end of the variables and frames of the scripts ---- *)

(***************************************************************************)
(*                 JSON DOCUMENTS, FILES AND DICTIONARIES                  *)
(***************************************************************************)

Threads == {"t1", "t2"}

\* AMinerController objects of the process that are opened on the same
\* cache_dir.
Controllers == {"c1", "c2"}

\* AMinerAnalyzer / PaperKnowledgeGraphBuilder objects, which keep their
\* caches in dicts of their own (self.keywords_cache and the like).
Analyzers == {"z1"}

Objects == Controllers \cup Analyzers

\* Keys of a cache (author keys, paper ids, page keys) and cached values.
Keys == {"a", "b"}

Values == {1, 2}

\* The cache directory itself ("dir") and the files in it: an aminor.py map
\* (author_id_map.json), the paper details map beside it
\* (paper_details_map.json), the "<path>.tmp" of each, and the page cache of
\* books_llm.py.
Paths == {"dir", "map", "map.tmp", "details", "details.tmp", "page"}

\* Inodes of the file system; more than the names and open files can use.
MaxInodes == 5

\* Tokens that reach the file in one write of the buffered writer.
ChunkLen == 2

Inodes == 1..MaxInodes

\* The inode of the cache directory where it exists.
DirInode == MaxInodes

\* The tokens json.dump writes: braces and one token per "key": value pair;
\* "nul" is what a hole left by a write past the end of a file reads as.
OpenBrace == [tok |-> "{", k |-> "", v |-> 0]

CloseBrace == [tok |-> "}", k |-> "", v |-> 0]

Nul == [tok |-> "nul", k |-> "", v |-> 0]

\* Bytes that are not UTF-8, such as a multi-byte character cut off by a
\* write that did not finish (the documents are written with
\* ensure_ascii=False).
Cut == [tok |-> "cut", k |-> "", v |-> 0]

Entry(k, v) == [tok |-> "kv", k |-> k, v |-> v]

\* A Python dict: its items in insertion order, keys distinct.
EmptyDict == <<>>

\* mutant: no key is ever found
HasNever(d, k) == FALSE

Has(d, k) == \E i \in 1..Len(d) : d[i].k = k

\* d.get(k), 0 for None.
Lookup(d, k) == IF Has(d, k) THEN d[CHOOSE i \in 1..Len(d) : d[i].k = k].v ELSE 0

\* mutant: the new entry replaces the mapping instead of joining it
DictSetAlone(d, k, v) == <<Entry(k, v)>>

\* d[k] = v: an existing key keeps its place, a new key goes last.
DictSet(d, k, v) ==
    IF Has(d, k)
    THEN [i \in 1..Len(d) |-> IF d[i].k = k THEN Entry(k, v) ELSE d[i]]
    ELSE Append(d, Entry(k, v))

\* del d[k] when k is a key of d.
DictDel(d, k) == SelectSeq(d, LAMBDA e : e.k # k)

\* json.dump(d, f, ensure_ascii=False, indent=2): the tokens written, in order.
Serialize(d) == <<OpenBrace>> \o d \o <<CloseBrace>>

\* Whether json.load accepts the content: one complete object.
WellFormed(s) ==
    /\ Len(s) >= 2
    /\ s[1] = OpenBrace
    /\ s[Len(s)] = CloseBrace
    /\ \A i \in 2..(Len(s) - 1) : s[i].tok = "kv"

RECURSIVE FoldItems(_, _, _)
\* The dict json.load builds from the pairs s[i..]: a repeated key keeps its
\* first place and its last value.
FoldItems(s, i, d) ==
    IF i > Len(s) - 1 THEN d ELSE FoldItems(s, i + 1, DictSet(d, s[i].k, s[i].v))

\* json.load of a well-formed content.
Parse(s) == FoldItems(s, 2, EmptyDict)

\* Content of the file at path p, <<>> for an empty file.
Content(p) == IF names[p] = 0 THEN <<>> ELSE data[names[p]]

\* mutant: a load that trusts any content it finds
LoadMapUnchecked(p) ==
    IF names[p] = 0 \/ Len(Content(p)) < 2 THEN EmptyDict ELSE Parse(Content(p))

\* _load_author_id_map and the loaders like it: open + json.load, and {} on
\* any exception (no such file, content that does not parse).
LoadMap(p) ==
    IF names[p] # 0 /\ WellFormed(Content(p)) THEN Parse(Content(p)) ELSE EmptyDict

\* The mapping as a function of the keys (0: no entry).
AsFunction(d) == [k \in Keys |-> Lookup(d, k)]

\* Inodes that no name and no open file refers to.
Referenced(nm, f) == {nm[p] : p \in Paths} \cup {f[t] : t \in Threads}

\* The file system after references were dropped: an inode nothing refers
\* to is gone.
Reclaim(nm, f, dt) == [i \in Inodes |-> IF i \in Referenced(nm, f) THEN dt[i] ELSE <<>>]

\* The inode a newly created file gets.
NewInode == CHOOSE i \in Inodes : i \notin Referenced(names, fd) /\
                \A j \in Inodes : j \notin Referenced(names, fd) => i <= j

\* write() of the tokens toks[from..to] at their positions in content s: it
\* overwrites what is there, extends the file at its end, and leaves a hole
\* when the file was truncated under the writer.
WriteAt(s, toks, from, to) ==
    [i \in 1..(IF to > Len(s) THEN to ELSE Len(s)) |->
        IF i >= from /\ i <= to THEN toks[i] ELSE IF i <= Len(s) THEN s[i] ELSE Nul]

\* The caches untouched: the state the retry loops run in.
CacheAtRest ==
    /\ names = [p \in Paths |-> 0]
    /\ data = [i \in Inodes |-> <<>>]
    /\ threads = {}
    /\ objOf = [t \in Threads |-> "c1"]
    /\ remote = [t \in Threads |-> {}]
    /\ asks = [t \in Threads |-> {}]
    /\ shared = EmptyDict
    /\ lockOf = [o \in Objects |-> "free"]
    /\ tpc = [t \in Threads |-> "idle"]
    /\ key = [t \in Threads |-> "a"]
    /\ val = [t \in Threads |-> 0]
    /\ mem = [t \in Threads |-> EmptyDict]
    /\ fd = [t \in Threads |-> 0]
    /\ off = [t \in Threads |-> 0]
    /\ ret = [t \in Threads |-> 0]
    /\ saved = [t \in Threads |-> "none"]
    /\ before = [t \in Threads |-> EmptyDict]
    /\ interrupted = <<>>
    /\ stored = [k \in Keys |-> 0]
    /\ lastLock = "t1"
    /\ overlap = FALSE

(***************************************************************************)
(*                          RETRY LOOPS                                    *)
(***************************************************************************)

\* The retry loops of the repository.
Loops == {"author_id", "author_papers", "paper_details", "glm", "keywords", "audit"}

AminerLoops == {"author_id", "author_papers", "paper_details"}

\* `for retry in range(3)` of get_author_id.
AuthorIdRange == 3

\* `for retry in range(3)` of get_author_papers.
AuthorPapersRange == 3

\* `for retry in range(3)` of get_paper_details.
PaperDetailsRange == 3

\* books_llm.py: API_RETRY = 3.
API_RETRY == 3

\* gen.py: max_retries = 3.
max_retries == 3

\* validate_commit.py: retries_remaining = 3.
retries_remaining == 3

\* The retry count each loop is written with.
Configured(l) ==
    CASE l = "author_id"     -> AuthorIdRange
      [] l = "author_papers" -> AuthorPapersRange
      [] l = "paper_details" -> PaperDetailsRange
      [] l = "glm"           -> API_RETRY
      [] l = "keywords"      -> max_retries
      [] l = "audit"         -> retries_remaining

\* What one invocation of the remote operation can do:
\*   "raise"      the request raises (timeout, connection error, HTTP status
\*                rejected by raise_for_status, 404 and 429 included)
\*   "unparsable" the body does not parse (response.json() raises)
\*   "nodata"     the body parses but carries no result
\*                (success false / data empty / no choices)
\*   "nofield"    a result is there but lacks a field the code reads
\*   "ok"         a complete result
Responses == {"raise", "unparsable", "nodata", "nofield", "ok"}

\* mutant: range(n + 1) written as range(n)
IterationsShort(l, n) == n

\* Number of iterations the loop header allows for retry count n:
\* range(3) in aminor.py, range(API_RETRY + 1) in books_llm.py,
\* `while retry_count < max_retries` in gen.py,
\* `while retries_remaining > 0` in validate_commit.py.
Iterations(l, n) == IF l = "glm" THEN n + 1 ELSE n

\* Whether the try body of loop l raises on response r.
\* aminor.py: requests / raise_for_status / response.json() raise; reading
\* result["data"][0]["id"] (get_author_id) or item["id"], item["title"]
\* (get_author_papers) raises KeyError; get_paper_details reads no field of
\* the item.  books_llm.py reads ["message"]["content"] inside the try.
\* gen.py: _call_glm_api re-raises everything.  validate_commit.py: run_audit
\* raises on a response without parsed entries (attribute of None).
Throws(l, r) ==
    CASE r \in {"raise", "unparsable"} -> TRUE
      [] r = "ok"      -> FALSE
      [] r = "nofield" -> l # "paper_details"
      [] r = "nodata"  -> l = "audit"

\* mutant: a successful attempt does not leave the loop
AfterValueLoops(l, n, it) ==
    IF it + 1 < Iterations(l, n) THEN "Attempting" ELSE "ExhaustedFailure"

\* Position after an attempt that produced a value (return / break).
AfterValue(l, n, it) == "Success"

\* mutant: a response without result is handled like an exception in aminor.py
AfterNoDataRetried(l, n, it) ==
    IF l = "glm"
    THEN IF it + 1 < Iterations(l, n) THEN "Attempting" ELSE "ExhaustedFailure"
    ELSE "WaitingToRetry"

\* Position after a response that parsed but carries no result:
\* aminor.py prints and returns None; gen.py's _call_glm_api returns "" and
\* the loop breaks; books_llm.py prints and goes on with the next iteration
\* (no sleep, no return).
AfterNoData(l, n, it) ==
    IF l = "glm"
    THEN IF it + 1 < Iterations(l, n) THEN "Attempting" ELSE "ExhaustedFailure"
    ELSE "Absent"

\* mutant: the except clause does not count the failure (`while True`)
AfterThrowForever(l, n, it) ==
    IF l \in AminerLoops \cup {"glm"} THEN "WaitingToRetry" ELSE "Attempting"

\* mutant: aminor.py sleeps only when another attempt follows
AfterThrowGuarded(l, n, it) ==
    CASE l \in AminerLoops \cup {"glm"} ->
            IF it < Iterations(l, n) - 1 THEN "WaitingToRetry" ELSE "ExhaustedFailure"
      [] OTHER ->
            IF it + 1 < Iterations(l, n) THEN "Attempting" ELSE "ExhaustedFailure"

\* Position after an attempt that raised:
\* aminor.py: time.sleep in the except clause, always;
\* books_llm.py: time.sleep(3) only `if retry < API_RETRY`;
\* gen.py, validate_commit.py: count and loop, no sleep.
AfterThrow(l, n, it) ==
    CASE l \in AminerLoops -> "WaitingToRetry"
      [] l = "glm" ->
            IF it < n THEN "WaitingToRetry" ELSE "ExhaustedFailure"
      [] OTHER ->
            IF it + 1 < Iterations(l, n) THEN "Attempting" ELSE "ExhaustedFailure"

Terminal == {"Success", "ExhaustedFailure", "Absent"}

\* No author matching under way.
MatchAtRest ==
    /\ mname = "n1"
    /\ mpc = "Idle"
    /\ mresp = <<>>
    /\ mslept = 0
    /\ mret = -1

InitRetry ==
    /\ loop \in Loops
    /\ budget \in {0, Configured(loop)}
    /\ rpc = "Idle"
    /\ retry = 0
    /\ attempts = 0
    /\ sleeps = 0
    /\ hist = <<>>
    /\ result = 0
    /\ MatchAtRest
    /\ ScriptsAtRest
    /\ CacheAtRest

\* No retry loop running: the state the cache operations run in.
RetryAtRest ==
    /\ loop = "author_id"
    /\ budget = Configured("author_id")
    /\ rpc = "Idle"
    /\ retry = 0
    /\ attempts = 0
    /\ sleeps = 0
    /\ hist = <<>>
    /\ result = 0

\* The call reaches the loop header for the first time.
StartFetch ==
    /\ rpc = "Idle"
    /\ rpc' = IF Iterations(loop, budget) > 0 THEN "Attempting" ELSE "ExhaustedFailure"
    /\ UNCHANGED <<loop, budget, retry, attempts, sleeps, hist, result>>
    /\ UNCHANGED <<matchVars, cacheVars, scriptVars>>

\* One pass through the try body: the remote operation is invoked and
\* answers r; the value of the k-th invocation is written k.
Attempt(r) ==
    /\ rpc = "Attempting"
    /\ attempts' = attempts + 1
    /\ hist' = Append(hist, r)
    /\ sleeps' = sleeps
    /\ UNCHANGED <<loop, budget>>
    /\ UNCHANGED <<matchVars, cacheVars, scriptVars>>
    /\ IF Throws(loop, r)
       THEN /\ rpc' = AfterThrow(loop, budget, retry)
            /\ retry' = IF rpc' = "WaitingToRetry" THEN retry ELSE retry + 1
            /\ result' = 0
       ELSE IF r = "nodata"
       THEN /\ rpc' = AfterNoData(loop, budget, retry)
            /\ retry' = IF rpc' = "WaitingToRetry" THEN retry ELSE retry + 1
            /\ result' = 0
       ELSE /\ rpc' = AfterValue(loop, budget, retry)
            /\ retry' = IF rpc' = "Success" THEN retry ELSE retry + 1
            /\ result' = IF rpc' = "Success" THEN attempts + 1 ELSE 0

\* time.sleep(...) in the except clause, then the loop header again.
Sleep ==
    /\ rpc = "WaitingToRetry"
    /\ sleeps' = sleeps + 1
    /\ retry' = retry + 1
    /\ rpc' = IF retry + 1 < Iterations(loop, budget) THEN "Attempting" ELSE "ExhaustedFailure"
    /\ UNCHANGED <<loop, budget, attempts, hist, result>>
    /\ UNCHANGED <<matchVars, cacheVars, scriptVars>>

NextRetry ==
    \/ StartFetch
    \/ \E r \in Responses : Attempt(r)
    \/ Sleep

SpecRetry == InitRetry /\ [][NextRetry]_vars /\ WF_vars(NextRetry)

(***************************************************************************)
(*                     CLAIMS ABOUT THE RETRY LOOPS                        *)
(***************************************************************************)

\* Number of attempts so far that raised inside the try body.
Raised == Cardinality({i \in 1..Len(hist) : Throws(loop, hist[i])})

C7_RetrySuccess ==
    /\ \A i \in 1..Len(hist) :
          hist[i] = "ok" => i = Len(hist) /\ rpc = "Success" /\ result = i
    /\ rpc = "Success" => result = attempts /\ ~Throws(loop, hist[attempts])
    /\ (budget = Configured(loop) /\ rpc = "ExhaustedFailure") => attempts >= 3

C7_Witness ==
    /\ loop = "audit"
    /\ budget = Configured(loop)
    /\ hist = <<"raise", "raise", "ok">>
    /\ rpc = "Success"
    /\ result = 3

FetcherState(p) == IF p = "Absent" THEN "ExhaustedFailure" ELSE p

\* The moves of the state machine
\* Idle -> Attempting -> {Success, WaitingToRetry -> Attempting, ExhaustedFailure}.
StatedMoves ==
    \/ FetcherState(rpc) = "Idle" /\ FetcherState(rpc') = "Attempting"
    \/ /\ FetcherState(rpc) = "Attempting"
       /\ FetcherState(rpc') \in {"Success", "WaitingToRetry", "ExhaustedFailure"}
    \/ FetcherState(rpc) = "WaitingToRetry" /\ FetcherState(rpc') = "Attempting"

\* C9 as stated: the loop moves only along
\* Idle -> Attempting -> {Success, WaitingToRetry -> Attempting, ExhaustedFailure}.
C9_AsStated == [][budget = Configured(loop) => StatedMoves]_retryVars

\* The moves the loops make.
CodedMoves ==
    \/ rpc = "Idle" /\ rpc' \in {"Attempting", "ExhaustedFailure"}
    \/ rpc = "Attempting" /\ rpc' \in Terminal \cup {"WaitingToRetry", "Attempting"}
    \/ rpc = "WaitingToRetry" /\ rpc' \in {"Attempting", "ExhaustedFailure"}

\* A terminal state is Success with a value or a failure with None; the
\* attempts never exceed retry count + 1.
OneTerminalState ==
    /\ attempts <= budget + 1
    /\ rpc \in Terminal => (rpc = "Success" <=> result # 0)
    /\ rpc \notin Terminal => result = 0

\* No step leaves a terminal state.
TerminalStays == rpc \in Terminal => (rpc' = rpc /\ attempts' = attempts)

\* C9 amended: every loop ends after at most retry count + 1 attempts in
\* exactly one terminal state, Success with a value or a failure state with
\* None, and nothing follows a terminal state; the moves are those of the
\* state machine and, in addition, WaitingToRetry -> ExhaustedFailure (aminor.py
\* sleeps after its last attempt too), Attempting -> Attempting (gen.py,
\* validate_commit.py and a response without choices in books_llm.py retry
\* without a pause) and Idle -> ExhaustedFailure (a loop of no iteration).
C9_TerminatesInOneTerminalState ==
    /\ [](OneTerminalState)
    /\ [][TerminalStays]_retryVars
    /\ [][CodedMoves]_retryVars
    /\ <>(rpc \in Terminal)

C9_Witness ==
    /\ loop = "author_papers"
    /\ rpc = "ExhaustedFailure"
    /\ sleeps = attempts
    /\ attempts = 3

\* Responses that were received but are malformed, or say "not found".
Malformed == {"unparsable", "nodata", "nofield"}

\* C10 as stated: a malformed or not-found response ends the fetch at once
\* with an absent result; no attempt follows it.
C10_AsStated ==
    \A i \in 1..Len(hist) :
        hist[i] \in Malformed => i = Len(hist) /\ rpc \in Terminal /\ result = 0

\* C10 amended: in the loops of aminor.py and gen.py a response that parses
\* but carries no result ends the fetch at once with an absent result and no
\* further attempt; a body that does not parse ends a fetch only by using up
\* the last attempt, i.e. it is retried like a transient failure; in
\* books_llm._call_glm_api and validate_commit.py a response without result
\* is retried too.
C10_NoResultEndsFetch ==
    /\ \A i \in 1..Len(hist) :
          (hist[i] = "nodata" /\ loop \in AminerLoops \cup {"keywords"}) =>
              i = Len(hist) /\ rpc = "Absent" /\ result = 0
    /\ rpc = "Absent" => hist[Len(hist)] = "nodata"
    /\ (rpc \in Terminal /\ attempts > 0 /\ hist[attempts] = "unparsable") =>
          rpc = "ExhaustedFailure" /\ attempts = Iterations(loop, budget)
    /\ (loop \in {"glm", "audit"} /\ rpc \in Terminal /\ attempts > 0
            /\ hist[attempts] = "nodata") =>
          rpc = "ExhaustedFailure" /\ attempts = Iterations(loop, budget)

C10_Witness ==
    /\ loop = "author_id"
    /\ hist = <<"raise", "nodata">>
    /\ rpc = "Absent"
    /\ result = 0

(***************************************************************************)
(*        AUTHOR MATCHING (CSrankings/validate_commit.py)                  *)
(***************************************************************************)

\* Author names of a pull request and of DBLP's answers.
Names == {"n1", "n2"}

\* 429 answers in a row that DBLP gives to one lookup.
MaxWaits == 3

\* @total of a DBLP answer.
MaxTotal == 2

\* time.sleep(10)
RateLimitPause == 10

\* What requests.get and r.json() can make of a request: the 429 page, an
\* exception (no connection, a body that is not the expected JSON), or the
\* JSON answer with its @total and the authors of its hits.
DblpAnswers ==
    {[kind |-> "429", total |-> 0, authors |-> {}],
     [kind |-> "raise", total |-> 0, authors |-> {}]}
    \cup {[kind |-> "json", total |-> n, authors |-> a] :
              n \in 0..MaxTotal, a \in SUBSET Names}

\* mutant: the 429 page is not recognised
RateLimitedNever(a) == FALSE

\* "<title>429 Too Many Requests</title>" in r.text
RateLimited(a) == a.kind = "429"

\* What the call returns for an answer that is not the 429 page: 0 after an
\* exception (the 429 page is not JSON: r.json() raises), 1 for a hit with
\* exactly the name, and @total otherwise.
MatchResult(name, a) ==
    IF a.kind # "json" THEN 0
    ELSE IF a.total > 0 /\ name \in a.authors THEN 1
    ELSE a.total

\* 429 answers among the responses so far.
Waits == Cardinality({i \in 1..Len(mresp) : mresp[i].kind = "429"})

InitMatch ==
    /\ RetryAtRest
    /\ CacheAtRest
    /\ ScriptsAtRest
    /\ mname \in Names
    /\ mpc = "Requesting"
    /\ mresp = <<>>
    /\ mslept = 0
    /\ mret = -1

\* requests.get(dblp_url) and what follows it up to the sleep or the return.
MatchRequest(a) ==
    /\ mpc = "Requesting"
    /\ a.kind = "429" => Waits < MaxWaits
    /\ mresp' = Append(mresp, a)
    /\ IF RateLimited(a)
       THEN mpc' = "Waiting" /\ UNCHANGED mret
       ELSE mpc' = "Returned" /\ mret' = MatchResult(mname, a)
    /\ UNCHANGED <<mname, mslept>>
    /\ UNCHANGED <<retryVars, cacheVars, scriptVars>>

\* time.sleep(10); return matching_name_with_dblp(name): the same request
\* is built again.
MatchSleep ==
    /\ mpc = "Waiting"
    /\ mslept' = mslept + RateLimitPause
    /\ mpc' = "Requesting"
    /\ UNCHANGED <<mname, mresp, mret>>
    /\ UNCHANGED <<retryVars, cacheVars, scriptVars>>

NextMatch ==
    \/ \E a \in DblpAnswers : MatchRequest(a)
    \/ MatchSleep

SpecMatch == InitMatch /\ [][NextMatch]_vars /\ WF_vars(NextMatch)

\* Every answer but the last one was the 429 page and was followed by a
\* pause of 10 seconds; the call has returned exactly when its last answer
\* was not the 429 page, and then with the result of that answer.
BackoffShape ==
    /\ \A i \in 1..(Len(mresp) - 1) : mresp[i].kind = "429"
    /\ mpc = "Requesting" => mslept = RateLimitPause * Len(mresp) /\ Waits = Len(mresp)
    /\ mpc = "Waiting" => mslept = RateLimitPause * (Len(mresp) - 1) /\ Waits = Len(mresp)
    /\ mpc = "Returned" =>
          /\ mresp[Len(mresp)].kind # "429"
          /\ mslept = RateLimitPause * (Len(mresp) - 1)
          /\ mret = MatchResult(mname, mresp[Len(mresp)])
    /\ mpc # "Returned" => mret = -1

\* A 429 answer is always followed by the pause and the pause by the same
\* request; no step counts a retry down.
BackoffMoves ==
    /\ (mpc = "Waiting" => mpc' = "Requesting" /\ mname' = mname)
    /\ (mpc = "Returned" => UNCHANGED matchVars)
    /\ retry' = retry /\ budget' = budget

\* C11: on the 429 page matching_name_with_dblp waits 10 seconds and issues
\* the same request again, however often, with no retry budget; it returns
\* only after an answer that is not the 429 page (0 after an exception), and
\* it does return once DBLP stops answering 429.
C11_RateLimitBackoff ==
    /\ [](BackoffShape)
    /\ [][BackoffMoves]_vars
    /\ <>(mpc = "Returned")

\* C11 witness: after MaxWaits 429 pages and as many pauses the call
\* returned 1 for a hit with exactly the name.
C11_Witness ==
    /\ mpc = "Returned"
    /\ Waits = MaxWaits
    /\ mslept = RateLimitPause * MaxWaits
    /\ mret = 1
    /\ mresp[Len(mresp)].total = 2

(***************************************************************************)
(*              THE CACHES OF AMinerController (aminor.py)                 *)
(***************************************************************************)

\* mutant: the save writes the target itself (temp_path = path)
TmpPathInPlace(p) == p

\* mutant: every cache of the directory writes the same temp file
TmpPathShared(p) == "map.tmp"

\* temp_path = f"{path}.tmp"
TmpPath(p) == IF p = "details" THEN "details.tmp" ELSE "map.tmp"

\* Whether `with self.id_lock:` can be entered: the lock is an attribute of
\* the controller object, created in __init__.
LockFree(o) == lockOf[o] = "free"

\* Positions of a thread inside `with lock:` of a save.
InSave == {"open", "dump", "replace"}

\* Positions between the fetched value and the return of the put.
InPut == {"lock"} \cup InSave

\* A cache directory after AMinerController.__init__ found a map file with
\* content c (or created it, c = {}).
InitFiles(c) ==
    /\ names = [p \in Paths |-> IF p = "map" THEN 1 ELSE IF p = "dir" THEN DirInode ELSE 0]
    /\ data = [i \in Inodes |-> IF i = 1 THEN Serialize(c) ELSE <<>>]
    /\ stored = AsFunction(c)

InitThreads(running, objs, rem, ks, held) ==
    /\ threads = running
    /\ objOf = objs
    /\ remote = rem
    /\ asks = ks
    /\ lockOf = [o \in Objects |-> "free"]
    /\ tpc = [t \in Threads |-> "idle"]
    /\ key = [t \in Threads |-> "a"]
    /\ val = [t \in Threads |-> 0]
    /\ mem = held
    /\ fd = [t \in Threads |-> 0]
    /\ off = [t \in Threads |-> 0]
    /\ ret = [t \in Threads |-> 0]
    /\ saved = [t \in Threads |-> "none"]
    /\ before = [t \in Threads |-> EmptyDict]
    /\ interrupted = <<>>
    /\ lastLock = "t1"
    /\ overlap = FALSE

\* get_author_id / get_author_papers / get_paper_details up to the remote
\* call: with force_refresh unset the map is loaded and a cached value is
\* returned; otherwise the remote fetch begins.
GetLookup(t, k, force_refresh) ==
    /\ t \in threads
    /\ tpc[t] = "idle"
    /\ k \in asks[t]
    /\ interrupted' = <<>>
    /\ IF ~force_refresh /\ Has(LoadMap("map"), k)
       THEN /\ ret' = [ret EXCEPT ![t] = Lookup(LoadMap("map"), k)]
            /\ UNCHANGED tpc
       ELSE /\ tpc' = [tpc EXCEPT ![t] = "fetch"]
            /\ ret' = [ret EXCEPT ![t] = 0]
    /\ key' = [key EXCEPT ![t] = k]
    /\ val' = [val EXCEPT ![t] = 0]
    /\ saved' = [saved EXCEPT ![t] = "none"]
    /\ UNCHANGED <<names, data, threads, objOf, remote, asks, shared, lockOf, mem, fd, off,
                   before, stored, lastLock, overlap>>
    /\ UNCHANGED loopVars

\* The remote fetch yields nothing (no result, or the retries ran out):
\* the call returns None and writes nothing.
FetchFails(t) ==
    /\ t \in threads
    /\ tpc[t] = "fetch"
    /\ tpc' = [tpc EXCEPT ![t] = "idle"]
    /\ ret' = [ret EXCEPT ![t] = 0]
    /\ UNCHANGED <<names, data, threads, objOf, remote, asks, shared, lockOf, key, val, mem, fd,
                   off, saved, before, interrupted, stored, lastLock, overlap>>
    /\ UNCHANGED loopVars

\* The remote fetch yields v: the map is loaded again and the entry set in
\* the loaded copy (author_map = self._load_author_id_map();
\* author_map[author_key] = author_id).
FetchSucceeds(t, v) ==
    /\ t \in threads
    /\ tpc[t] = "fetch"
    /\ v \in remote[t]
    /\ val' = [val EXCEPT ![t] = v]
    /\ mem' = [mem EXCEPT ![t] = DictSet(LoadMap("map"), key[t], v)]
    /\ tpc' = [tpc EXCEPT ![t] = "lock"]
    /\ saved' = [saved EXCEPT ![t] = "pending"]
    /\ overlap' = \E u \in threads \ {t} :
                      tpc[u] \in InPut /\ key[u] = key[t] /\ val[u] # v
    /\ UNCHANGED <<names, data, threads, objOf, remote, asks, shared, lockOf, key, fd, off, ret,
                   before, interrupted, stored, lastLock>>
    /\ UNCHANGED loopVars

\* `with self.id_lock:` of the save.
AcquireLock(t) ==
    /\ t \in threads
    /\ tpc[t] = "lock"
    /\ LockFree(objOf[t])
    /\ lockOf' = [lockOf EXCEPT ![objOf[t]] = t]
    /\ tpc' = [tpc EXCEPT ![t] = "open"]
    /\ before' = [before EXCEPT ![t] = LoadMap("map")]
    /\ lastLock' = t
    /\ UNCHANGED <<names, data, threads, objOf, remote, asks, shared, key, val, mem, fd, off, ret,
                   saved, interrupted, stored, overlap>>
    /\ UNCHANGED loopVars

\* open(temp_path, "w"): the file is created, or truncated when it exists.
OpenTmp(t) ==
    /\ t \in threads
    /\ tpc[t] = "open"
    /\ LET tmp == TmpPath("map")
           i == IF names[tmp] # 0 THEN names[tmp] ELSE NewInode
       IN /\ names' = [names EXCEPT ![tmp] = i]
          /\ data' = [data EXCEPT ![i] = <<>>]
          /\ fd' = [fd EXCEPT ![t] = i]
    /\ off' = [off EXCEPT ![t] = 0]
    /\ tpc' = [tpc EXCEPT ![t] = "dump"]
    /\ UNCHANGED <<threads, objOf, remote, asks, shared, lockOf, key, val, mem, ret, saved,
                   before, interrupted, stored, lastLock, overlap>>
    /\ UNCHANGED loopVars

\* json.dump writes the next tokens of the mapping; after the last one the
\* with block closes the file.
DumpToken(t) ==
    /\ t \in threads
    /\ tpc[t] = "dump"
    /\ LET toks == Serialize(mem[t])
           to == IF off[t] + ChunkLen < Len(toks) THEN off[t] + ChunkLen ELSE Len(toks)
           written == [data EXCEPT ![fd[t]] = WriteAt(@, toks, off[t] + 1, to)]
       IN IF to = Len(toks)
          THEN /\ fd' = [fd EXCEPT ![t] = 0]
               /\ off' = [off EXCEPT ![t] = 0]
               /\ tpc' = [tpc EXCEPT ![t] = "replace"]
               /\ data' = Reclaim(names, fd', written)
          ELSE /\ off' = [off EXCEPT ![t] = to]
               /\ data' = written
               /\ UNCHANGED <<fd, tpc>>
    /\ UNCHANGED <<names, threads, objOf, remote, asks, shared, lockOf, key, val, mem, ret, saved,
                   before, interrupted, stored, lastLock, overlap>>
    /\ UNCHANGED loopVars

\* os.replace(temp_path, path) succeeds, the save returns True, the lock is
\* released and the call returns the fetched value.
Replace(t) ==
    /\ t \in threads
    /\ tpc[t] = "replace"
    /\ names[TmpPath("map")] # 0
    /\ names' = IF TmpPath("map") = "map" THEN names
                ELSE [names EXCEPT !["map"] = names[TmpPath("map")],
                                   ![TmpPath("map")] = 0]
    /\ data' = Reclaim(names', fd, data)
    /\ lockOf' = [lockOf EXCEPT ![objOf[t]] = IF @ = t THEN "free" ELSE @]
    /\ tpc' = [tpc EXCEPT ![t] = "idle"]
    /\ ret' = [ret EXCEPT ![t] = val[t]]
    /\ mem' = [mem EXCEPT ![t] = EmptyDict]
    /\ before' = [before EXCEPT ![t] = EmptyDict]
    /\ stored' = [stored EXCEPT ![key[t]] = val[t]]
    /\ saved' = [saved EXCEPT ![t] = "yes"]
    /\ interrupted' = <<>>
    /\ UNCHANGED <<threads, objOf, remote, asks, shared, key, val, fd, off, lastLock, overlap>>
    /\ UNCHANGED loopVars

\* mutant: a save that fails takes the entry of the update out of the
\* in-memory mapping again
SaveFailsRollsBack(t) ==
    /\ t \in threads
    /\ tpc[t] \in InSave
    /\ fd' = [fd EXCEPT ![t] = 0]
    /\ off' = [off EXCEPT ![t] = 0]
    /\ data' = Reclaim(names, fd', data)
    /\ lockOf' = [lockOf EXCEPT ![objOf[t]] = IF @ = t THEN "free" ELSE @]
    /\ tpc' = [tpc EXCEPT ![t] = "idle"]
    /\ ret' = [ret EXCEPT ![t] = val[t]]
    /\ mem' = [mem EXCEPT ![t] = EmptyDict]
    /\ before' = [before EXCEPT ![t] = EmptyDict]
    /\ saved' = [saved EXCEPT ![t] = "failed"]
    /\ shared' = DictDel(shared, key[t])
    /\ UNCHANGED <<names, threads, objOf, remote, asks, key, val, interrupted, stored,
                   lastLock, overlap>>
    /\ UNCHANGED loopVars

\* open, json.dump or os.replace raises (no permission, disk full, temp file
\* gone): `except Exception` prints, the save returns False, the lock is
\* released; the caller ignores the False and returns the fetched value.
SaveFails(t) ==
    /\ t \in threads
    /\ tpc[t] \in InSave
    /\ fd' = [fd EXCEPT ![t] = 0]
    /\ off' = [off EXCEPT ![t] = 0]
    /\ data' = Reclaim(names, fd', data)
    /\ lockOf' = [lockOf EXCEPT ![objOf[t]] = IF @ = t THEN "free" ELSE @]
    /\ tpc' = [tpc EXCEPT ![t] = "idle"]
    /\ ret' = [ret EXCEPT ![t] = val[t]]
    /\ mem' = [mem EXCEPT ![t] = EmptyDict]
    /\ before' = [before EXCEPT ![t] = EmptyDict]
    /\ saved' = [saved EXCEPT ![t] = "failed"]
    /\ UNCHANGED <<names, threads, objOf, remote, asks, shared, key, val, interrupted, stored,
                   lastLock, overlap>>
    /\ UNCHANGED loopVars

\* The process is killed at any point and started again: memory, locks and
\* open files are gone, the directory is as it was; __init__ finds the map
\* file (_ensure_cache_files creates nothing).
Crash ==
    /\ \E t \in threads : tpc[t] # "idle"
    /\ interrupted' =
          IF \E t \in threads : tpc[t] \in {"dump", "replace"}
          THEN <<before[CHOOSE t \in threads : tpc[t] \in {"dump", "replace"}]>>
          ELSE <<>>
    /\ fd' = [t \in Threads |-> 0]
    /\ off' = [t \in Threads |-> 0]
    /\ data' = Reclaim(names, fd', data)
    /\ lockOf' = [o \in Objects |-> "free"]
    /\ tpc' = [t \in Threads |-> "idle"]
    /\ key' = [t \in Threads |-> "a"]
    /\ val' = [t \in Threads |-> 0]
    /\ mem' = [t \in Threads |-> EmptyDict]
    /\ ret' = [t \in Threads |-> 0]
    /\ saved' = [t \in Threads |-> "none"]
    /\ before' = [t \in Threads |-> EmptyDict]
    /\ overlap' = FALSE
    /\ UNCHANGED <<names, threads, objOf, remote, asks, shared, stored, lastLock>>
    /\ UNCHANGED loopVars

NextCache ==
    \/ \E t \in Threads, k \in Keys, f \in BOOLEAN : GetLookup(t, k, f)
    \/ \E t \in Threads : FetchFails(t)
    \/ \E t \in Threads, v \in Values : FetchSucceeds(t, v)
    \/ \E t \in Threads : AcquireLock(t)
    \/ \E t \in Threads : OpenTmp(t)
    \/ \E t \in Threads : DumpToken(t)
    \/ \E t \in Threads : Replace(t)
    \/ \E t \in Threads : SaveFails(t)
    \/ Crash

\* Map contents the process can find at its start.
InitialMaps == {EmptyDict, <<Entry("a", 1)>>}

\* Two threads of one process call the same AMinerController; both ask for
\* key "a", the second for "b" as well.
InitShared ==
    /\ RetryAtRest
    /\ MatchAtRest
    /\ ScriptsAtRest
    /\ \E c \in InitialMaps : InitFiles(c)
    /\ shared = EmptyDict
    /\ InitThreads(Threads, [t \in Threads |-> "c1"],
                   [t \in Threads |-> IF t = "t1" THEN {1} ELSE {2}],
                   [t \in Threads |-> IF t = "t1" THEN {"a"} ELSE Keys],
                   [t \in Threads |-> EmptyDict])

Spec == InitShared /\ [][NextCache]_vars

\* One thread calls one AMinerController.
InitOneThread ==
    /\ RetryAtRest
    /\ MatchAtRest
    /\ ScriptsAtRest
    /\ \E c \in InitialMaps : InitFiles(c)
    /\ shared = EmptyDict
    /\ InitThreads({"t1"}, [t \in Threads |-> "c1"], [t \in Threads |-> Values],
                   [t \in Threads |-> Keys], [t \in Threads |-> EmptyDict])

SpecOneThread == InitOneThread /\ [][NextCache]_vars

\* Two controller objects of one process on the same cache_dir (an
\* AMinerAnalyzer builds its own AMinerController), one thread on each.
InitTwoControllers ==
    /\ RetryAtRest
    /\ MatchAtRest
    /\ ScriptsAtRest
    /\ \E c \in InitialMaps : InitFiles(c)
    /\ shared = EmptyDict
    /\ InitThreads(Threads, [t \in Threads |-> IF t = "t1" THEN "c1" ELSE "c2"],
                   [t \in Threads |-> IF t = "t1" THEN {1} ELSE {2}],
                   [t \in Threads |-> {"a"}], [t \in Threads |-> EmptyDict])

SpecTwoControllers == InitTwoControllers /\ [][NextCache]_vars

\* Contents json.load rejects: bytes that are no JSON, a document cut off
\* before its end, a document without its beginning.
CorruptContents ==
    {<<Nul>>,
     <<OpenBrace, Entry("a", 1), Entry("b", 1)>>,
     <<Entry("a", 1), CloseBrace>>}

\* One thread calls an AMinerController whose __init__ found the map file
\* existing, with content that does not parse.
InitCorrupt ==
    /\ RetryAtRest
    /\ MatchAtRest
    /\ ScriptsAtRest
    /\ \E c \in CorruptContents :
          /\ names = [p \in Paths |-> IF p = "map" THEN 1 ELSE IF p = "dir" THEN DirInode ELSE 0]
          /\ data = [i \in Inodes |-> IF i = 1 THEN c ELSE <<>>]
    /\ stored = [k \in Keys |-> 0]
    /\ shared = EmptyDict
    /\ InitThreads({"t1"}, [t \in Threads |-> "c1"], [t \in Threads |-> Values],
                   [t \in Threads |-> Keys], [t \in Threads |-> EmptyDict])

SpecCorrupt == InitCorrupt /\ [][NextCache]_vars

(***************************************************************************)
(*        TWO CACHES OF ONE AMinerController IN ONE DIRECTORY              *)
(***************************************************************************)

\* Positions of a thread inside `with self.details_lock:` of
\* _save_paper_details_map.
InDetailsSave == {"d_open", "d_dump", "d_replace"}

\* get_paper_details up to the remote call: the cache check on the paper
\* details map.
DetailsLookup(t, k, force_refresh) ==
    /\ t \in threads
    /\ tpc[t] = "idle"
    /\ k \in asks[t]
    /\ IF ~force_refresh /\ Has(LoadMap("details"), k)
       THEN /\ ret' = [ret EXCEPT ![t] = Lookup(LoadMap("details"), k)]
            /\ UNCHANGED tpc
       ELSE /\ tpc' = [tpc EXCEPT ![t] = "d_fetch"]
            /\ ret' = [ret EXCEPT ![t] = 0]
    /\ key' = [key EXCEPT ![t] = k]
    /\ val' = [val EXCEPT ![t] = 0]
    /\ saved' = [saved EXCEPT ![t] = "none"]
    /\ UNCHANGED <<names, data, threads, objOf, remote, asks, shared, lockOf, mem, fd, off,
                   before, interrupted, stored, lastLock, overlap>>
    /\ UNCHANGED loopVars

\* No details came back, or the retries ran out: None is returned.
DetailsFetchFails(t) ==
    /\ t \in threads
    /\ tpc[t] = "d_fetch"
    /\ tpc' = [tpc EXCEPT ![t] = "idle"]
    /\ ret' = [ret EXCEPT ![t] = 0]
    /\ UNCHANGED <<names, data, threads, objOf, remote, asks, shared, lockOf, key, val, mem, fd,
                   off, saved, before, interrupted, stored, lastLock, overlap>>
    /\ UNCHANGED loopVars

\* details_map = self._load_paper_details_map(); details_map[paper_id] =
\* paper_details; then the save begins.  self.details_lock is a lock of its
\* own, and only this thread asks for it.
DetailsFetchSucceeds(t, v) ==
    /\ t \in threads
    /\ tpc[t] = "d_fetch"
    /\ v \in remote[t]
    /\ val' = [val EXCEPT ![t] = v]
    /\ mem' = [mem EXCEPT ![t] = DictSet(LoadMap("details"), key[t], v)]
    /\ tpc' = [tpc EXCEPT ![t] = "d_open"]
    /\ saved' = [saved EXCEPT ![t] = "pending"]
    /\ UNCHANGED <<names, data, threads, objOf, remote, asks, shared, lockOf, key, fd, off, ret,
                   before, interrupted, stored, lastLock, overlap>>
    /\ UNCHANGED loopVars

\* open(temp_path, "w") of _save_paper_details_map.
DetailsOpenTmp(t) ==
    /\ t \in threads
    /\ tpc[t] = "d_open"
    /\ LET tmp == TmpPath("details")
           i == IF names[tmp] # 0 THEN names[tmp] ELSE NewInode
       IN /\ names' = [names EXCEPT ![tmp] = i]
          /\ data' = [data EXCEPT ![i] = <<>>]
          /\ fd' = [fd EXCEPT ![t] = i]
    /\ off' = [off EXCEPT ![t] = 0]
    /\ tpc' = [tpc EXCEPT ![t] = "d_dump"]
    /\ UNCHANGED <<threads, objOf, remote, asks, shared, lockOf, key, val, mem, ret, saved,
                   before, interrupted, stored, lastLock, overlap>>
    /\ UNCHANGED loopVars

\* json.dump(data, f) of _save_paper_details_map, some tokens at a time.
DetailsDump(t) ==
    /\ t \in threads
    /\ tpc[t] = "d_dump"
    /\ LET toks == Serialize(mem[t])
           to == IF off[t] + ChunkLen < Len(toks) THEN off[t] + ChunkLen ELSE Len(toks)
           written == [data EXCEPT ![fd[t]] = WriteAt(@, toks, off[t] + 1, to)]
       IN IF to = Len(toks)
          THEN /\ fd' = [fd EXCEPT ![t] = 0]
               /\ off' = [off EXCEPT ![t] = 0]
               /\ tpc' = [tpc EXCEPT ![t] = "d_replace"]
               /\ data' = Reclaim(names, fd', written)
          ELSE /\ off' = [off EXCEPT ![t] = to]
               /\ data' = written
               /\ UNCHANGED <<fd, tpc>>
    /\ UNCHANGED <<names, threads, objOf, remote, asks, shared, lockOf, key, val, mem, ret, saved,
                   before, interrupted, stored, lastLock, overlap>>
    /\ UNCHANGED loopVars

\* os.replace(temp_path, self.paper_details_map_path), return True, and the
\* details are returned.
DetailsReplace(t) ==
    /\ t \in threads
    /\ tpc[t] = "d_replace"
    /\ names[TmpPath("details")] # 0
    /\ names' = [names EXCEPT !["details"] = names[TmpPath("details")],
                              ![TmpPath("details")] = 0]
    /\ data' = Reclaim(names', fd, data)
    /\ tpc' = [tpc EXCEPT ![t] = "idle"]
    /\ ret' = [ret EXCEPT ![t] = val[t]]
    /\ mem' = [mem EXCEPT ![t] = EmptyDict]
    /\ saved' = [saved EXCEPT ![t] = "yes"]
    /\ UNCHANGED <<threads, objOf, remote, asks, shared, lockOf, key, val, fd, off, before,
                   interrupted, stored, lastLock, overlap>>
    /\ UNCHANGED loopVars

\* The save of the details map raises: False, ignored by the caller.
DetailsSaveFails(t) ==
    /\ t \in threads
    /\ tpc[t] \in InDetailsSave
    /\ fd' = [fd EXCEPT ![t] = 0]
    /\ off' = [off EXCEPT ![t] = 0]
    /\ data' = Reclaim(names, fd', data)
    /\ tpc' = [tpc EXCEPT ![t] = "idle"]
    /\ ret' = [ret EXCEPT ![t] = val[t]]
    /\ mem' = [mem EXCEPT ![t] = EmptyDict]
    /\ saved' = [saved EXCEPT ![t] = "failed"]
    /\ UNCHANGED <<names, threads, objOf, remote, asks, shared, lockOf, key, val, before,
                   interrupted, stored, lastLock, overlap>>
    /\ UNCHANGED loopVars

\* Thread t1 calls get_author_id and thread t2 get_paper_details of the same
\* controller.
NextTwoCaches ==
    \/ \E k \in Keys, f \in BOOLEAN : GetLookup("t1", k, f)
    \/ \E t \in Threads : FetchFails(t)
    \/ \E t \in Threads, v \in Values : FetchSucceeds(t, v)
    \/ \E t \in Threads : AcquireLock(t)
    \/ \E t \in Threads : OpenTmp(t)
    \/ \E t \in Threads : DumpToken(t)
    \/ \E t \in Threads : Replace(t)
    \/ \E t \in Threads : SaveFails(t)
    \/ \E k \in Keys, f \in BOOLEAN : DetailsLookup("t2", k, f)
    \/ \E t \in Threads : DetailsFetchFails(t)
    \/ \E t \in Threads, v \in Values : DetailsFetchSucceeds(t, v)
    \/ \E t \in Threads : DetailsOpenTmp(t)
    \/ \E t \in Threads : DetailsDump(t)
    \/ \E t \in Threads : DetailsReplace(t)
    \/ \E t \in Threads : DetailsSaveFails(t)

\* The directory after __init__: _ensure_cache_files found or created the
\* author id map and the paper details map.
InitTwoCaches ==
    /\ RetryAtRest
    /\ MatchAtRest
    /\ ScriptsAtRest
    /\ \E c, d \in InitialMaps :
          /\ names = [p \in Paths |-> IF p = "map" THEN 1 ELSE IF p = "details" THEN 2
                                      ELSE IF p = "dir" THEN DirInode ELSE 0]
          /\ data = [i \in Inodes |-> IF i = 1 THEN Serialize(c)
                                      ELSE IF i = 2 THEN Serialize(d) ELSE <<>>]
          /\ stored = AsFunction(c)
    /\ shared = EmptyDict
    /\ InitThreads(Threads, [t \in Threads |-> "c1"],
                   [t \in Threads |-> IF t = "t1" THEN {1} ELSE {2}],
                   [t \in Threads |-> IF t = "t1" THEN {"a"} ELSE {"b"}],
                   [t \in Threads |-> EmptyDict])

SpecTwoCaches == InitTwoCaches /\ [][NextTwoCaches]_vars

(***************************************************************************)
(*        _ensure_cache_files / _ensure_analyzer_cache_files / _init_cache *)
(***************************************************************************)

\* Positions of a thread inside _ensure_cache_files: the mkdir, then for
\* each file the test, the open and the dump.
EnsurePcs ==
    {"e_mkdir", "e_check1", "e_open1", "e_dump1", "e_check2", "e_open2", "e_dump2"}

\* The files _ensure_cache_files looks after.
EnsuredFiles == {"map", "details"}

\* Path(self.cache_dir).mkdir(parents=True, exist_ok=True) /
\* os.makedirs(self.cache_dir, exist_ok=True): the directory is made when it
\* is not there.
EnsureMkdir(t) ==
    /\ t \in threads
    /\ tpc[t] = "e_mkdir"
    /\ IF names["dir"] = 0
       THEN /\ names' = [names EXCEPT !["dir"] = NewInode]
            /\ data' = [data EXCEPT ![NewInode] = <<>>]
       ELSE UNCHANGED <<names, data>>
    /\ tpc' = [tpc EXCEPT ![t] = "e_check1"]
    /\ UNCHANGED <<threads, objOf, remote, asks, shared, lockOf, key, val, mem, fd, off, ret,
                   saved, before, interrupted, stored, lastLock, overlap>>
    /\ UNCHANGED loopVars

\* mutant: the file is written whether it exists or not
EnsureCheckAlways(t, p, at, create, next) ==
    /\ t \in threads
    /\ tpc[t] = at
    /\ tpc' = [tpc EXCEPT ![t] = create]
    /\ UNCHANGED <<names, data, threads, objOf, remote, asks, shared, lockOf, key, val, mem,
                   fd, off, ret, saved, before, interrupted, stored, lastLock, overlap>>
    /\ UNCHANGED loopVars

\* if not os.path.exists(path): the file is written only when it is not
\* there.
EnsureCheck(t, p, at, create, next) ==
    /\ t \in threads
    /\ tpc[t] = at
    /\ tpc' = [tpc EXCEPT ![t] = IF names[p] # 0 THEN next ELSE create]
    /\ UNCHANGED <<names, data, threads, objOf, remote, asks, shared, lockOf, key, val, mem,
                   fd, off, ret, saved, before, interrupted, stored, lastLock, overlap>>
    /\ UNCHANGED loopVars

\* open(path, "w", encoding="utf-8"): creates the file, and would truncate
\* one that is there.
EnsureCreate(t, p, at, dump) ==
    /\ t \in threads
    /\ tpc[t] = at
    /\ names["dir"] # 0
    /\ LET i == IF names[p] # 0 THEN names[p] ELSE NewInode
       IN /\ names' = [names EXCEPT ![p] = i]
          /\ data' = [data EXCEPT ![i] = <<>>]
          /\ fd' = [fd EXCEPT ![t] = i]
    /\ tpc' = [tpc EXCEPT ![t] = dump]
    /\ UNCHANGED <<threads, objOf, remote, asks, shared, lockOf, key, val, mem, off, ret,
                   saved, before, interrupted, stored, lastLock, overlap>>
    /\ UNCHANGED loopVars

\* json.dump({}, f, ensure_ascii=False, indent=2) and the end of the with
\* block.
EnsureDump(t, at, next) ==
    /\ t \in threads
    /\ tpc[t] = at
    /\ fd' = [fd EXCEPT ![t] = 0]
    /\ data' = Reclaim(names, fd',
                       [data EXCEPT ![fd[t]] =
                           WriteAt(@, Serialize(EmptyDict), 1, Len(Serialize(EmptyDict)))])
    /\ tpc' = [tpc EXCEPT ![t] = next]
    /\ UNCHANGED <<names, threads, objOf, remote, asks, shared, lockOf, key, val, mem, off,
                   ret, saved, before, interrupted, stored, lastLock, overlap>>
    /\ UNCHANGED loopVars

\* The function is called again: another object is constructed on the same
\* cache_dir (AMinerAnalyzer builds a controller of its own), or the script
\* is run again.
EnsureAgain(t) ==
    /\ t \in threads
    /\ tpc[t] = "idle"
    /\ tpc' = [tpc EXCEPT ![t] = "e_mkdir"]
    /\ UNCHANGED <<names, data, threads, objOf, remote, asks, shared, lockOf, key, val, mem,
                   fd, off, ret, saved, before, interrupted, stored, lastLock, overlap>>
    /\ UNCHANGED loopVars

\* __init__ and the calls of get_author_id that follow it.
NextEnsure ==
    \/ \E t \in Threads : EnsureMkdir(t)
    \/ \E t \in Threads : EnsureCheck(t, "map", "e_check1", "e_open1", "e_check2")
    \/ \E t \in Threads : EnsureCreate(t, "map", "e_open1", "e_dump1")
    \/ \E t \in Threads : EnsureDump(t, "e_dump1", "e_check2")
    \/ \E t \in Threads : EnsureCheck(t, "details", "e_check2", "e_open2", "idle")
    \/ \E t \in Threads : EnsureCreate(t, "details", "e_open2", "e_dump2")
    \/ \E t \in Threads : EnsureDump(t, "e_dump2", "idle")
    \/ \E t \in Threads : EnsureAgain(t)
    \/ \E t \in Threads, k \in Keys, f \in BOOLEAN : GetLookup(t, k, f)
    \/ \E t \in Threads : FetchFails(t)
    \/ \E t \in Threads, v \in Values : FetchSucceeds(t, v)
    \/ \E t \in Threads : AcquireLock(t)
    \/ \E t \in Threads : OpenTmp(t)
    \/ \E t \in Threads : DumpToken(t)
    \/ \E t \in Threads : Replace(t)
    \/ \E t \in Threads : SaveFails(t)

\* What a file that is there can hold when the function is called: a
\* mapping, nothing at all, or content that does not parse.
AnyContents == {Serialize(c) : c \in InitialMaps} \cup {<<>>} \cup CorruptContents

\* The constructor is entered with cache_dir not there, or there with each
\* of the files absent or present with any content.
InitEnsure ==
    /\ RetryAtRest
    /\ MatchAtRest
    /\ ScriptsAtRest
    /\ \/ /\ names = [p \in Paths |-> 0]
          /\ data = [i \in Inodes |-> <<>>]
       \/ \E hasMap, hasDetails \in BOOLEAN, c, d \in AnyContents :
             /\ names = [p \in Paths |->
                            IF p = "dir" THEN DirInode
                            ELSE IF p = "map" /\ hasMap THEN 1
                            ELSE IF p = "details" /\ hasDetails THEN 2 ELSE 0]
             /\ data = [i \in Inodes |->
                           IF i = 1 /\ hasMap THEN c
                           ELSE IF i = 2 /\ hasDetails THEN d ELSE <<>>]
    /\ stored = [k \in Keys |-> 0]
    /\ shared = EmptyDict
    /\ threads = {"t1"}
    /\ objOf = [t \in Threads |-> "c1"]
    /\ remote = [t \in Threads |-> {1}]
    /\ asks = [t \in Threads |-> {"a"}]
    /\ lockOf = [o \in Objects |-> "free"]
    /\ tpc = [t \in Threads |-> IF t = "t1" THEN "e_mkdir" ELSE "idle"]
    /\ key = [t \in Threads |-> "a"]
    /\ val = [t \in Threads |-> 0]
    /\ mem = [t \in Threads |-> EmptyDict]
    /\ fd = [t \in Threads |-> 0]
    /\ off = [t \in Threads |-> 0]
    /\ ret = [t \in Threads |-> 0]
    /\ saved = [t \in Threads |-> "none"]
    /\ before = [t \in Threads |-> EmptyDict]
    /\ interrupted = <<>>
    /\ lastLock = "t1"
    /\ overlap = FALSE

SpecEnsure == InitEnsure /\ [][NextEnsure]_vars

(***************************************************************************)
(*            THE KEYWORDS CACHE OF AMinerAnalyzer (analyzer.py)           *)
(***************************************************************************)

\* dict(keywords): the keywords counted before the model call failed.
Partial == 3

\* The thread has saved a partial result and is about to exit(1).
Exiting(t) == tpc[t] = "idle" /\ val[t] = Partial

\* extract_keywords up to the extraction: with force_refresh unset a key of
\* self.keywords_cache is answered from memory; otherwise the extraction
\* begins.
ExtractLookup(t, k, force_refresh) ==
    /\ t \in threads
    /\ tpc[t] = "idle"
    /\ ~Exiting(t)
    /\ k \in asks[t]
    /\ IF ~force_refresh /\ Has(shared, k)
       THEN /\ ret' = [ret EXCEPT ![t] = Lookup(shared, k)]
            /\ UNCHANGED tpc
       ELSE /\ tpc' = [tpc EXCEPT ![t] = "extract"]
            /\ ret' = [ret EXCEPT ![t] = 0]
    /\ key' = [key EXCEPT ![t] = k]
    /\ val' = [val EXCEPT ![t] = 0]
    /\ saved' = [saved EXCEPT ![t] = "none"]
    /\ UNCHANGED <<names, data, threads, objOf, remote, asks, shared, lockOf, mem, fd,
                   off, before, interrupted, stored, lastLock, overlap>>
    /\ UNCHANGED loopVars

\* self.keywords_cache[cache_key] = sorted_keywords: the entry is set in the
\* dict all threads of the analyzer share, before the lock is asked for.
ExtractAssign(t, v) ==
    /\ t \in threads
    /\ tpc[t] = "extract"
    /\ v \in remote[t]
    /\ shared' = DictSet(shared, key[t], v)
    /\ val' = [val EXCEPT ![t] = v]
    /\ saved' = [saved EXCEPT ![t] = "pending"]
    /\ tpc' = [tpc EXCEPT ![t] = "lock"]
    /\ overlap' = \E u \in threads \ {t} :
                      tpc[u] \in InPut /\ key[u] = key[t] /\ val[u] # v
    /\ UNCHANGED <<names, data, threads, objOf, remote, asks, lockOf, key, mem, fd, off,
                   ret, before, interrupted, stored, lastLock>>
    /\ UNCHANGED loopVars

\* json.dump(self.keywords_cache, f) writes the next tokens of the shared
\* dict as it is now; the iteration goes on only while the dict has the size
\* it had when the iteration began (otherwise RuntimeError: SaveFails).
DumpShared(t) ==
    /\ t \in threads
    /\ tpc[t] = "dump"
    /\ off[t] = 0 \/ Len(mem[t]) = Len(shared)
    /\ LET toks == Serialize(shared)
           to == IF off[t] + ChunkLen < Len(toks) THEN off[t] + ChunkLen ELSE Len(toks)
           written == [data EXCEPT ![fd[t]] = WriteAt(@, toks, off[t] + 1, to)]
       IN IF to = Len(toks)
          THEN /\ fd' = [fd EXCEPT ![t] = 0]
               /\ off' = [off EXCEPT ![t] = 0]
               /\ tpc' = [tpc EXCEPT ![t] = "replace"]
               /\ data' = Reclaim(names, fd', written)
          ELSE /\ off' = [off EXCEPT ![t] = to]
               /\ data' = written
               /\ UNCHANGED <<fd, tpc>>
    /\ mem' = [mem EXCEPT ![t] = IF off[t] = 0 THEN shared ELSE @]
    /\ UNCHANGED <<names, threads, objOf, remote, asks, shared, lockOf, key, val, ret,
                   saved, before, interrupted, stored, lastLock, overlap>>
    /\ UNCHANGED loopVars

\* os.replace(temp_path, file_path) succeeds, _save_analyzer_cache returns
\* True, the lock is released and extract_keywords goes on.
ReplaceShared(t) ==
    /\ t \in threads
    /\ tpc[t] = "replace"
    /\ names[TmpPath("map")] # 0
    /\ stored' = [k \in Keys |-> IF Has(LoadMap(TmpPath("map")), k)
                                 THEN Lookup(LoadMap(TmpPath("map")), k)
                                 ELSE stored[k]]
    /\ names' = [names EXCEPT !["map"] = names[TmpPath("map")],
                              ![TmpPath("map")] = 0]
    /\ data' = Reclaim(names', fd, data)
    /\ lockOf' = [lockOf EXCEPT ![objOf[t]] = IF @ = t THEN "free" ELSE @]
    /\ tpc' = [tpc EXCEPT ![t] = "idle"]
    /\ ret' = [ret EXCEPT ![t] = val[t]]
    /\ mem' = [mem EXCEPT ![t] = EmptyDict]
    /\ before' = [before EXCEPT ![t] = EmptyDict]
    /\ saved' = [saved EXCEPT ![t] = "yes"]
    /\ UNCHANGED <<threads, objOf, remote, asks, shared, key, val, fd, off,
                   interrupted, lastLock, overlap>>
    /\ UNCHANGED loopVars

NextAnalyzer ==
    \/ \E t \in Threads, k \in Keys, f \in BOOLEAN : ExtractLookup(t, k, f)
    \/ \E t \in Threads, v \in Values : ExtractAssign(t, v)
    \/ \E t \in Threads : AcquireLock(t)
    \/ \E t \in Threads : OpenTmp(t)
    \/ \E t \in Threads : DumpShared(t)
    \/ \E t \in Threads : ReplaceShared(t)
    \/ \E t \in Threads : SaveFails(t)

\* Two threads of one process call extract_keywords of the same
\* AMinerAnalyzer, whose __init__ loaded self.keywords_cache from the file.
InitAnalyzer ==
    /\ RetryAtRest
    /\ MatchAtRest
    /\ ScriptsAtRest
    /\ \E c \in InitialMaps : InitFiles(c) /\ shared = c
    /\ InitThreads(Threads, [t \in Threads |-> "c1"],
                   [t \in Threads |-> IF t = "t1" THEN {1} ELSE {2}],
                   [t \in Threads |-> IF t = "t1" THEN {"a"} ELSE Keys],
                   [t \in Threads |-> EmptyDict])

SpecAnalyzer == InitAnalyzer /\ [][NextAnalyzer]_vars

\* The model call fails for a paper (no response, or a response that does
\* not parse): the keywords counted so far are stored under the cache key
\* and saved; exit(1) follows the save.
ExtractGivesUp(t) ==
    /\ t \in threads
    /\ tpc[t] = "extract"
    /\ shared' = DictSet(shared, key[t], Partial)
    /\ val' = [val EXCEPT ![t] = Partial]
    /\ saved' = [saved EXCEPT ![t] = "pending"]
    /\ tpc' = [tpc EXCEPT ![t] = "lock"]
    /\ UNCHANGED <<names, data, threads, objOf, remote, asks, lockOf, key, mem, fd, off,
                   ret, before, interrupted, stored, lastLock, overlap>>
    /\ UNCHANGED loopVars

\* exit(1) after the save of a partial result, and the next run of the
\* script: AMinerAnalyzer.__init__ loads self.keywords_cache from the file.
ExitAndRunAgain ==
    /\ \E t \in threads : Exiting(t)
    /\ shared' = LoadMap("map")
    /\ lockOf' = [o \in Objects |-> "free"]
    /\ tpc' = [t \in Threads |-> "idle"]
    /\ key' = [t \in Threads |-> "a"]
    /\ val' = [t \in Threads |-> 0]
    /\ mem' = [t \in Threads |-> EmptyDict]
    /\ ret' = [t \in Threads |-> 0]
    /\ saved' = [t \in Threads |-> "none"]
    /\ UNCHANGED <<names, data, threads, objOf, remote, asks, fd, off, before,
                   interrupted, stored, lastLock, overlap>>
    /\ UNCHANGED loopVars

NextExtract ==
    \/ \E t \in Threads, k \in Keys, f \in BOOLEAN : ExtractLookup(t, k, f)
    \/ \E t \in Threads, v \in Values : ExtractAssign(t, v)
    \/ \E t \in Threads : ExtractGivesUp(t)
    \/ \E t \in Threads : AcquireLock(t)
    \/ \E t \in Threads : OpenTmp(t)
    \/ \E t \in Threads : DumpShared(t)
    \/ \E t \in Threads : ReplaceShared(t)
    \/ \E t \in Threads : SaveFails(t)
    \/ ExitAndRunAgain

\* One thread runs extract_keywords of one AMinerAnalyzer, run after run.
InitExtract ==
    /\ RetryAtRest
    /\ MatchAtRest
    /\ ScriptsAtRest
    /\ \E c \in InitialMaps : InitFiles(c) /\ shared = c
    /\ InitThreads({"t1"}, [t \in Threads |-> "c1"], [t \in Threads |-> Values],
                   [t \in Threads |-> Keys], [t \in Threads |-> EmptyDict])

SpecExtract == InitExtract /\ [][NextExtract]_vars

(***************************************************************************)
(*        ONE CALLER OF EITHER KIND: A CONTROLLER OR AN ANALYZER           *)
(***************************************************************************)

\* The steps of a thread that calls an AMinerController (the file is the
\* mapping) and of a thread that calls an AMinerAnalyzer (a dict in memory
\* is the mapping, the file its copy).
NextEither ==
    \/ \E t \in Threads, k \in Keys, f \in BOOLEAN :
          objOf[t] \in Controllers /\ GetLookup(t, k, f)
    \/ \E t \in Threads : objOf[t] \in Controllers /\ FetchFails(t)
    \/ \E t \in Threads, v \in Values : objOf[t] \in Controllers /\ FetchSucceeds(t, v)
    \/ \E t \in Threads : objOf[t] \in Controllers /\ DumpToken(t)
    \/ \E t \in Threads : objOf[t] \in Controllers /\ Replace(t)
    \/ (\A t \in threads : objOf[t] \in Controllers) /\ Crash
    \/ \E t \in Threads, k \in Keys, f \in BOOLEAN :
          objOf[t] \in Analyzers /\ ExtractLookup(t, k, f)
    \/ \E t \in Threads, v \in Values : objOf[t] \in Analyzers /\ ExtractAssign(t, v)
    \/ \E t \in Threads : objOf[t] \in Analyzers /\ ExtractGivesUp(t)
    \/ \E t \in Threads : objOf[t] \in Analyzers /\ DumpShared(t)
    \/ \E t \in Threads : objOf[t] \in Analyzers /\ ReplaceShared(t)
    \/ (\A t \in threads : objOf[t] \in Analyzers) /\ ExitAndRunAgain
    \/ \E t \in Threads : AcquireLock(t)
    \/ \E t \in Threads : OpenTmp(t)
    \/ \E t \in Threads : SaveFails(t)

\* One thread calls one object, a controller or an analyzer, whose __init__
\* found the cache file.
InitEither ==
    /\ RetryAtRest
    /\ MatchAtRest
    /\ ScriptsAtRest
    /\ \E c \in InitialMaps, o \in {"c1", "z1"} :
          /\ InitFiles(c)
          /\ shared = IF o \in Analyzers THEN c ELSE EmptyDict
          /\ InitThreads({"t1"}, [t \in Threads |-> o], [t \in Threads |-> Values],
                         [t \in Threads |-> Keys], [t \in Threads |-> EmptyDict])

SpecEither == InitEither /\ [][NextEither]_vars

(***************************************************************************)
(*            THE PAGE CACHE OF PDFTOCExtractorWithLLM (books_llm.py)      *)
(***************************************************************************)

\* _load_json(file_path, default={}): the parsed file, and the default when
\* the file does not exist or does not parse.
LoadJson(p) ==
    IF names[p] # 0 /\ WellFormed(Content(p)) THEN Parse(Content(p)) ELSE EmptyDict

\* Positions of the process inside _save_json.
InSaveJson == {"target", "write"}

\* _set_page_cache: the entry is set in self.page_cache and _save_json begins.
SetPageCache(t, k, v) ==
    /\ t \in threads
    /\ tpc[t] = "idle"
    /\ k \in asks[t]
    /\ v \in remote[t]
    /\ mem' = [mem EXCEPT ![t] = DictSet(@, k, v)]
    /\ key' = [key EXCEPT ![t] = k]
    /\ val' = [val EXCEPT ![t] = v]
    /\ saved' = [saved EXCEPT ![t] = "pending"]
    /\ tpc' = [tpc EXCEPT ![t] = "target"]
    /\ before' = [before EXCEPT ![t] = LoadJson("page")]
    /\ UNCHANGED <<names, data, threads, objOf, remote, asks, shared, lockOf, fd, off, ret,
                   interrupted, stored, lastLock, overlap>>
    /\ UNCHANGED loopVars

\* open(file_path, 'w'): the cache file itself is created, or truncated.
OpenTarget(t) ==
    /\ t \in threads
    /\ tpc[t] = "target"
    /\ LET i == IF names["page"] # 0 THEN names["page"] ELSE NewInode
       IN /\ names' = [names EXCEPT !["page"] = i]
          /\ data' = [data EXCEPT ![i] = <<>>]
          /\ fd' = [fd EXCEPT ![t] = i]
    /\ off' = [off EXCEPT ![t] = 0]
    /\ tpc' = [tpc EXCEPT ![t] = "write"]
    /\ UNCHANGED <<threads, objOf, remote, asks, shared, lockOf, key, val, mem, ret, saved,
                   before, interrupted, stored, lastLock, overlap>>
    /\ UNCHANGED loopVars

\* json.dump writes the next tokens of self.page_cache into the cache file;
\* after the last one the with block closes it and _save_json returns.
DumpTarget(t) ==
    /\ t \in threads
    /\ tpc[t] = "write"
    /\ LET toks == Serialize(mem[t])
           to == IF off[t] + ChunkLen < Len(toks) THEN off[t] + ChunkLen ELSE Len(toks)
           written == [data EXCEPT ![fd[t]] = WriteAt(@, toks, off[t] + 1, to)]
       IN IF to = Len(toks)
          THEN /\ fd' = [fd EXCEPT ![t] = 0]
               /\ off' = [off EXCEPT ![t] = 0]
               /\ tpc' = [tpc EXCEPT ![t] = "idle"]
               /\ saved' = [saved EXCEPT ![t] = "yes"]
               /\ stored' = AsFunction(mem[t])
               /\ data' = Reclaim(names, fd', written)
          ELSE /\ off' = [off EXCEPT ![t] = to]
               /\ data' = written
               /\ UNCHANGED <<fd, tpc, saved, stored>>
    /\ UNCHANGED <<names, threads, objOf, remote, asks, shared, lockOf, key, val, mem, ret,
                   before, interrupted, lastLock, overlap>>
    /\ UNCHANGED loopVars

\* open or json.dump raises IOError: _save_json prints and returns; the entry
\* stays in self.page_cache.
SaveJsonFails(t) ==
    /\ t \in threads
    /\ tpc[t] \in InSaveJson
    /\ fd' = [fd EXCEPT ![t] = 0]
    /\ off' = [off EXCEPT ![t] = 0]
    /\ data' = Reclaim(names, fd', data)
    /\ tpc' = [tpc EXCEPT ![t] = "idle"]
    /\ saved' = [saved EXCEPT ![t] = "failed"]
    /\ UNCHANGED <<names, threads, objOf, remote, asks, shared, lockOf, key, val, mem, ret,
                   before, interrupted, stored, lastLock, overlap>>
    /\ UNCHANGED loopVars

\* The process is killed at any point and started again: __init__ loads
\* self.page_cache from the file as it was left.
Restart ==
    /\ fd' = [t \in Threads |-> 0]
    /\ off' = [t \in Threads |-> 0]
    /\ data' = Reclaim(names, fd', data)
    /\ tpc' = [t \in Threads |-> "idle"]
    /\ mem' = [t \in Threads |-> IF t \in threads THEN LoadJson("page") ELSE EmptyDict]
    /\ key' = [t \in Threads |-> "a"]
    /\ val' = [t \in Threads |-> 0]
    /\ saved' = [t \in Threads |-> "none"]
    /\ UNCHANGED <<names, threads, objOf, remote, asks, shared, lockOf, ret, before,
                   interrupted, stored, lastLock, overlap>>
    /\ UNCHANGED loopVars

NextDirect ==
    \/ \E t \in Threads, k \in Keys, v \in Values : SetPageCache(t, k, v)
    \/ \E t \in Threads : OpenTarget(t)
    \/ \E t \in Threads : DumpTarget(t)
    \/ \E t \in Threads : SaveJsonFails(t)
    \/ Restart

\* PDFTOCExtractorWithLLM.__init__ on a cache_dir whose page_cache.json holds
\* the mapping c.
InitDirect ==
    /\ RetryAtRest
    /\ MatchAtRest
    /\ ScriptsAtRest
    /\ \E c \in InitialMaps :
          /\ names = [p \in Paths |-> IF p = "page" THEN 1 ELSE IF p = "dir" THEN DirInode ELSE 0]
          /\ data = [i \in Inodes |-> IF i = 1 THEN Serialize(c) ELSE <<>>]
          /\ stored = AsFunction(c)
          /\ shared = EmptyDict
          /\ InitThreads({"t1"}, [t \in Threads |-> "c1"], [t \in Threads |-> Values],
                         [t \in Threads |-> Keys],
                         [t \in Threads |-> IF t = "t1" THEN c ELSE EmptyDict])

SpecDirect == InitDirect /\ [][NextDirect]_vars

(***************************************************************************)
(*                       PROPERTIES OF THE CACHES                          *)
(***************************************************************************)

\* The files that are caches (a "<path>.tmp" is not).
CacheFiles == {"map", "page"}

\* Positions of a save after the temp file was opened and before the rename
\* has happened.
Unrenamed == {"dump", "replace"}

\* C1: a put interrupted after "<path>.tmp" was written and before
\* os.replace leaves the cache as it was: while a save is between opening the
\* temp file and the rename, and after a kill at such a point, the cache file
\* is a complete document and a load of it returns exactly the mapping that
\* was there when the save began.
C1_InterruptedPutLeavesOldMapping ==
    /\ \A t \in threads :
          tpc[t] \in Unrenamed =>
              WellFormed(Content("map")) /\ LoadMap("map") = before[t]
    /\ interrupted # <<>> =>
          WellFormed(Content("map")) /\ LoadMap("map") = interrupted[1]

\* C1 witness: put("b", 2) on {"a": 1} was killed with the temp file fully
\* written; the cache still holds {"a": 1}.
C1_Witness ==
    /\ interrupted = <<(<<Entry("a", 1)>>)>>
    /\ Content("map.tmp") = Serialize(<<Entry("a", 1), Entry("b", 2)>>)
    /\ LoadMap("map") = <<Entry("a", 1)>>
    /\ \A t \in threads : tpc[t] = "idle"

\* C2 as stated: every cache file, when present and non-empty, holds a
\* complete JSON document in every reachable state.
C2_AsStated ==
    \A p \in CacheFiles :
        names[p] # 0 /\ Content(p) # <<>> => WellFormed(Content(p))

\* A lookup with force_refresh unset of a key whose put succeeded returns at
\* once, with the value of that put, and writes nothing.
RefetchReturnsStored ==
    \A t \in Threads, k \in Keys :
        stored[k] # 0 /\ GetLookup(t, k, FALSE) =>
            /\ tpc'[t] = "idle"
            /\ ret'[t] = stored[k]
            /\ names' = names
            /\ data' = data

\* C3: in one thread, once a put(k, v) has succeeded, every later lookup of k
\* with force_refresh unset returns v without a fetch, whatever puts for
\* other keys, failed saves and restarts came in between.
C3_IdempotentRefetch == [][RefetchReturnsStored]_vars

\* C3 witness: "a" was stored with 2, then "b" with 1, and a lookup of "a"
\* has just returned 2.
C3_Witness ==
    /\ threads = {"t1"}
    /\ tpc["t1"] = "idle"
    /\ key["t1"] = "a"
    /\ saved["t1"] = "none"
    /\ ret["t1"] = 2
    /\ stored = [k \in Keys |-> IF k = "a" THEN 2 ELSE 1]
    /\ LoadMap("map") = <<Entry("a", 2), Entry("b", 1)>>

\* Both threads have returned from a put for the same key whose save
\* succeeded.
BothPutsReturned ==
    /\ threads = Threads
    /\ \A t \in Threads : tpc[t] = "idle" /\ saved[t] = "yes"
    /\ key["t1"] = key["t2"]

\* C4 as stated: once two puts of two threads of the process for the same
\* key on the same cache have returned, the file is a complete document that
\* maps the key to the value put by the thread that acquired the lock last.
C4_AsStated ==
    BothPutsReturned =>
        /\ WellFormed(Content("map"))
        /\ Lookup(LoadMap("map"), key["t1"]) = val[lastLock]

\* C5 as stated: at no time are two writers of the process inside the
\* section that writes "<path>.tmp" and renames it over "<path>".
C5_AsStated ==
    \A t, u \in threads : t # u => ~(tpc[t] \in InSave /\ tpc[u] \in InSave)

\* C12 as stated: no cache file holds, and no cache hit returns, anything
\* but the result of a fetch that succeeded completely.
C12_AsStated ==
    /\ \A k \in Keys : Lookup(LoadMap("map"), k) # Partial
    /\ \A t \in threads : tpc[t] = "idle" /\ saved[t] = "none" => ret[t] # Partial

\* The cache file is a complete document with the pair k: v.
FileHolds(k, v) ==
    /\ WellFormed(Content("map"))
    /\ \E i \in 1..Len(Content("map")) : Content("map")[i] = Entry(k, v)

\* A lookup with force_refresh unset of a key the file holds returns the
\* value at once: no remote request is begun and no file is touched.  For a
\* key the file does not hold nothing is raised and nothing returned: the
\* call goes on to the remote fetch, the files as they were.
CacheFirst ==
    \A t \in Threads, k \in Keys :
        GetLookup(t, k, FALSE) =>
            /\ names' = names /\ data' = data
            /\ \A v \in Values :
                  FileHolds(k, v) => tpc'[t] = "idle" /\ ret'[t] = v
            /\ (\A v \in Values : ~FileHolds(k, v)) =>
                  tpc'[t] = "fetch" /\ ret'[t] = 0

\* C13: with the key in the cache and force_refresh unset the getters of
\* AMinerController return the cached value without a remote request and
\* without writing a file; an unknown key is found absent, not an error.
C13_CacheFirstLookup == [][CacheFirst]_vars

\* C13 witness: thread t2 has just been answered 1 for "a" from the file,
\* a value thread t1 had fetched and saved.
C13_Witness ==
    /\ threads = Threads
    /\ tpc["t2"] = "idle" /\ key["t2"] = "a" /\ saved["t2"] = "none" /\ ret["t2"] = 1
    /\ key["t1"] = "a" /\ val["t1"] = 1 /\ saved["t1"] = "yes"
    /\ FileHolds("a", 1)

\* No put has been saved since the process found the file.
NoPutYet == \A k \in Keys : stored[k] = 0

(***************************************************************************)
(*        THE PAGE CACHE FOUND CORRUPT (books_llm.py)                      *)
(***************************************************************************)

\* Reading the file with encoding='utf-8' raises UnicodeDecodeError, which
\* is a ValueError and neither json.JSONDecodeError nor IOError.
Undecodable(s) == \E i \in 1..Len(s) : s[i] = Cut

\* self.page_cache = self._load_json(self.page_cache_file, default={}) in
\* __init__: _load_json catches (json.JSONDecodeError, IOError) only, so a
\* file that does not decode ends __init__ with the exception.
LoadAtInit(t) ==
    /\ t \in threads
    /\ tpc[t] = "init"
    /\ IF Undecodable(Content("page"))
       THEN tpc' = [tpc EXCEPT ![t] = "raised"] /\ UNCHANGED mem
       ELSE tpc' = [tpc EXCEPT ![t] = "idle"] /\
            mem' = [mem EXCEPT ![t] = LoadJson("page")]
    /\ UNCHANGED <<names, data, threads, objOf, remote, asks, shared, lockOf, key, val,
                   fd, off, ret, saved, before, interrupted, stored, lastLock,
                   overlap>>
    /\ UNCHANGED loopVars

NextFound ==
    \/ \E t \in Threads : LoadAtInit(t)
    \/ \E t \in Threads, k \in Keys, v \in Values : SetPageCache(t, k, v)
    \/ \E t \in Threads : OpenTarget(t)
    \/ \E t \in Threads : DumpTarget(t)
    \/ \E t \in Threads : SaveJsonFails(t)

\* PDFTOCExtractorWithLLM is constructed on a cache_dir whose page_cache.json
\* holds content json.load cannot read.
InitFound ==
    /\ RetryAtRest
    /\ MatchAtRest
    /\ ScriptsAtRest
    /\ \E c \in CorruptContents \cup {<<OpenBrace, Entry("a", 1), Cut>>} :
          /\ names = [p \in Paths |-> IF p = "page" THEN 1 ELSE IF p = "dir" THEN DirInode ELSE 0]
          /\ data = [i \in Inodes |-> IF i = 1 THEN c ELSE <<>>]
    /\ stored = [k \in Keys |-> 0]
    /\ shared = EmptyDict
    /\ threads = {"t1"}
    /\ objOf = [t \in Threads |-> "c1"]
    /\ remote = [t \in Threads |-> Values]
    /\ asks = [t \in Threads |-> Keys]
    /\ lockOf = [o \in Objects |-> "free"]
    /\ tpc = [t \in Threads |-> IF t = "t1" THEN "init" ELSE "idle"]
    /\ key = [t \in Threads |-> "a"]
    /\ val = [t \in Threads |-> 0]
    /\ mem = [t \in Threads |-> EmptyDict]
    /\ fd = [t \in Threads |-> 0]
    /\ off = [t \in Threads |-> 0]
    /\ ret = [t \in Threads |-> 0]
    /\ saved = [t \in Threads |-> "none"]
    /\ before = [t \in Threads |-> EmptyDict]
    /\ interrupted = <<>>
    /\ lastLock = "t1"
    /\ overlap = FALSE

SpecFound == InitFound /\ [][NextFound]_vars

\* C14 as stated: whatever unparsable content the backing file holds,
\* initialization raises nothing and the cache is empty, and once a put has
\* succeeded the file holds exactly what was put.
C14_AsStated ==
    \A t \in threads :
        /\ tpc[t] # "raised"
        /\ tpc[t] = "idle" /\ NoPutYet => mem[t] = EmptyDict \/ saved[t] # "none"
        /\ tpc[t] = "idle" /\ saved[t] = "yes" =>
              WellFormed(Content("page")) /\ AsFunction(LoadJson("page")) = stored

\* In aminor.py a map file with unparsable content is an empty cache - every lookup
\* finds its key absent and raises nothing - and from the first successful
\* put on the file is a complete document holding exactly what was put.
CorruptMapIsEmptyCache ==
    /\ NoPutYet =>
          /\ LoadMap("map") = EmptyDict
          /\ \A t \in threads : tpc[t] = "idle" /\ saved[t] = "none" => ret[t] = 0
    /\ ~NoPutYet =>
          /\ WellFormed(Content("map"))
          /\ AsFunction(LoadMap("map")) = stored

\* After a lookup found nothing in the corrupt map file, the first
\* successful put, of 2 for "b", has left the file holding exactly {"b": 2}.
CorruptMapRecovered ==
    /\ tpc["t1"] = "idle" /\ key["t1"] = "b" /\ saved["t1"] = "yes"
    /\ stored = [k \in Keys |-> IF k = "b" THEN 2 ELSE 0]
    /\ Content("map") = Serialize(<<Entry("b", 2)>>)

\* C15 as stated: a save that failed has raised nothing, and the backing
\* file is the complete document it was when the save began.
C15_AsStated ==
    \A t \in threads :
        tpc[t] = "idle" /\ saved[t] = "failed" =>
            WellFormed(Content("page")) /\ LoadJson("page") = before[t]

\* A lookup of the key of a put whose save failed, force_refresh unset.  An
\* analyzer answers it from its dict, with the value of the failed put.  A
\* controller reads the file, which the failed save left alone: it returns
\* the value of the last put of the key that was saved, and with no such put
\* it fetches again.
FailedSaveThenLookup ==
    \A t \in Threads, k \in Keys :
        tpc[t] = "idle" /\ saved[t] = "failed" /\ key[t] = k =>
            /\ objOf[t] \in Analyzers /\ ExtractLookup(t, k, FALSE) =>
                  tpc'[t] = "idle" /\ ret'[t] = val[t]
            /\ objOf[t] \in Controllers /\ GetLookup(t, k, FALSE) =>
                  IF stored[k] # 0
                  THEN tpc'[t] = "idle" /\ ret'[t] = stored[k]
                  ELSE tpc'[t] = "fetch" /\ ret'[t] = 0

\* C16: after a put whose save failed, AMinerAnalyzer (and the builder of
\* gen.py, which keeps its caches the same way) answers a lookup of the key
\* with the value of that put; AMinerController, which keeps no mapping in
\* memory, answers it from the file the failed save left as it was - the
\* value saved before, or a new fetch.
C16_FailedSaveThenLookup == [][FailedSaveThenLookup]_vars

\* C16 witness: an analyzer has just answered "b" with 2 from its dict, the
\* value of a put the file never received.
C16_Witness ==
    /\ objOf["t1"] \in Analyzers
    /\ tpc["t1"] = "idle" /\ key["t1"] = "b" /\ saved["t1"] = "none"
    /\ ret["t1"] = 2
    /\ Lookup(shared, "b") = 2
    /\ ~Has(LoadMap("map"), "b")

\* Every lookup of the key of a put whose save failed returns the value of
\* that put.
FailedSaveKeepsValue ==
    \A t \in Threads, k \in Keys :
        /\ tpc[t] = "idle" /\ saved[t] = "failed" /\ key[t] = k
        /\ \/ objOf[t] \in Analyzers /\ ExtractLookup(t, k, FALSE)
           \/ objOf[t] \in Controllers /\ GetLookup(t, k, FALSE)
        => tpc'[t] = "idle" /\ ret'[t] = val[t]

\* C16 as stated: in AMinerController as in AMinerAnalyzer, a lookup after
\* a put whose save failed returns the value of that put.
C16_AsStated == [][FailedSaveKeepsValue]_vars

\* The file at path p is after the step what it was before it: there or not
\* there, with the same content.
SameFile(p) ==
    /\ (names'[p] = 0) = (names[p] = 0)
    /\ names[p] # 0 => data'[names'[p]] = data[names[p]]

\* A step of a call of get_author_id - lookup, fetch or save.
AuthorIdStep ==
    \/ \E t \in Threads, k \in Keys, f \in BOOLEAN : GetLookup(t, k, f)
    \/ \E t \in Threads : FetchFails(t)
    \/ \E t \in Threads, v \in Values : FetchSucceeds(t, v)
    \/ \E t \in Threads : AcquireLock(t) \/ OpenTmp(t) \/ DumpToken(t)
    \/ \E t \in Threads : Replace(t) \/ SaveFails(t)

\* A step of a call of get_paper_details.
PaperDetailsStep ==
    \/ \E t \in Threads, k \in Keys, f \in BOOLEAN : DetailsLookup(t, k, f)
    \/ \E t \in Threads : DetailsFetchFails(t)
    \/ \E t \in Threads, v \in Values : DetailsFetchSucceeds(t, v)
    \/ \E t \in Threads : DetailsOpenTmp(t) \/ DetailsDump(t)
    \/ \E t \in Threads : DetailsReplace(t) \/ DetailsSaveFails(t)

\* A put on the author id map leaves every file but that map and its temp
\* file as it was, and so does a put on the paper details map.
PutsKeepToTheirFiles ==
    /\ AuthorIdStep => \A p \in Paths \ {"map", "map.tmp"} : SameFile(p)
    /\ PaperDetailsStep => \A p \in Paths \ {"details", "details.tmp"} : SameFile(p)

\* C17: a put on one cache of the directory changes only that cache's
\* backing file and its own "<path>.tmp"; the backing file and the temp file
\* of every other cache are left as they were, also while another thread is
\* in the middle of a put on that other cache.
C17_NamespaceIsolation == [][PutsKeepToTheirFiles]_vars

\* C17 witness: thread t2 has put 2 for "b" into the details map while the
\* author id map kept the {"a": 1} that thread t1 had saved.
C17_Witness ==
    /\ threads = Threads
    /\ tpc["t2"] = "idle" /\ key["t2"] = "b" /\ saved["t2"] = "yes"
    /\ Lookup(LoadMap("details"), "b") = 2
    /\ saved["t1"] = "yes" /\ tpc["t1"] = "idle"
    /\ Content("map") = Serialize(<<Entry("a", 1)>>)

\* Every entry the author id map holds before a step it holds after it, with
\* the same value unless the step is the rename that ends a put for the key
\* of that entry.
EntriesPersist ==
    \A k \in Keys :
        Has(LoadMap("map"), k) =>
            /\ Has(LoadMap("map")', k)
            /\ Lookup(LoadMap("map")', k) # Lookup(LoadMap("map"), k) =>
                  \E t \in Threads : Replace(t) /\ key[t] = k

\* C18 as stated: an entry of a cache of AMinerController is changed only
\* by a call for its key whose fetch succeeded, and no operation ever
\* removes an entry.
C18_AsStated == [][EntriesPersist]_vars

\* C19 as stated: while a thread is in the middle of json.dump of the
\* in-memory mapping, the mapping is what it was when the iteration began -
\* no other thread has inserted into it or overwritten an entry of it.
C19_AsStated ==
    \A t \in threads : tpc[t] = "dump" /\ off[t] > 0 => shared = mem[t]

\* Once the function has returned, the directory and every backing file
\* exist.
EnsuredWhenReturned ==
    \A t \in threads :
        tpc[t] \notin EnsurePcs =>
            names["dir"] # 0 /\ \A p \in EnsuredFiles : names[p] # 0

\* The test of file p at position `at`: a file that is there is passed
\* over, and the test itself changes nothing.
CheckKeeps(p, at, create, next) ==
    \A t \in Threads :
        EnsureCheck(t, p, at, create, next) =>
            /\ \A q \in Paths : SameFile(q)
            /\ names[p] # 0 => tpc'[t] = next

\* The write of file p: only a file that was not there is opened, it is left
\* holding {}, and no other file is touched.
CreateKeeps(p, open, dump, next) ==
    \A t \in Threads :
        /\ EnsureCreate(t, p, open, dump) =>
              names[p] = 0 /\ \A q \in Paths \ {p} : SameFile(q)
        /\ EnsureDump(t, dump, next) =>
              /\ data'[names'[p]] = Serialize(EmptyDict)
              /\ \A q \in Paths \ {p} : SameFile(q)

\* Every step of the function leaves every file that exists as it is.
EnsureKeeps ==
    /\ \A t \in Threads : EnsureMkdir(t) => \A q \in Paths \ {"dir"} : SameFile(q)
    /\ CheckKeeps("map", "e_check1", "e_open1", "e_check2")
    /\ CreateKeeps("map", "e_open1", "e_dump1", "e_check2")
    /\ CheckKeeps("details", "e_check2", "e_open2", "idle")
    /\ CreateKeeps("details", "e_open2", "e_dump2", "idle")

\* C20: after _ensure_cache_files the cache directory and every backing file
\* exist; a file that was absent has been created holding {}; a file that
\* was there - with a mapping, empty or unparsable, from before or from a
\* put since the last call - is not opened for writing and keeps its content,
\* at the first call and at every later one.
C20_EnsureIdempotent == [](EnsuredWhenReturned) /\ [][EnsureKeeps]_vars

\* C20 witness: a later call has passed over the author id map, which holds
\* the {"a": 1} of a put made after the first call created it, and is at the
\* test of the details map, which was found cut off and is still so.
C20_Witness ==
    /\ tpc["t1"] = "e_check2"
    /\ saved["t1"] = "yes"
    /\ Content("map") = Serialize(<<Entry("a", 1)>>)
    /\ Content("details") = <<OpenBrace, Entry("a", 1), Entry("b", 1)>>

\* Both threads have returned from a put whose save succeeded, for two
\* different keys.
BothPutsOfTwoKeysReturned ==
    /\ threads = Threads
    /\ \A t \in Threads : tpc[t] = "idle" /\ saved[t] = "yes"
    /\ key["t1"] # key["t2"]

\* C21 as stated: once two threads have each fetched and stored a different
\* key of the same cache and both have returned, the backing file holds both
\* entries.
C21_AsStated ==
    BothPutsOfTwoKeysReturned =>
        \A t \in Threads : Has(LoadMap("map"), key[t])

(***************************************************************************)
(*            AMinerAnalyzer.load_authors_data (analyzer.py)               *)
(***************************************************************************)

AuthorNames == {"x", "y"}

PaperIds == {"p1", "p2", "p3"}

\* The keys under which a record of author_papers_map.json can hold the
\* list of the author's papers.
ListKeys == {"papers", "papers_old"}

\* start_year and end_year of _filter_papers_by_year.
start_year == 2015

end_year == 2025

\* What get_paper_details returns for the papers: one with an abstract and
\* a year in the range, one without abstract, one too old.
Details ==
    [p \in PaperIds |->
        IF p = "p1" THEN [abstract |-> TRUE, year |-> 2020]
        ELSE IF p = "p2" THEN [abstract |-> FALSE, year |-> 2020]
        ELSE [abstract |-> TRUE, year |-> 2010]]

\* get_author_papers returned None.
NoRecord == [found |-> FALSE, keys |-> {}, papers |-> {}]

\* papers_data as get_author_papers builds it after a successful request:
\* author_name, org, author_id, total_papers, papers, fetch_time.
FetchedRecords == {[found |-> TRUE, keys |-> {"papers"}, papers |-> ps] : ps \in SUBSET PaperIds}

\* papers_map[author_key] on a cache hit: whatever record the file holds -
\* one this code wrote, or one that has the list under "papers_old".
CachedRecords ==
    {[found |-> TRUE, keys |-> ks, papers |-> ps] :
        ks \in (SUBSET ListKeys) \ {{}}, ps \in SUBSET PaperIds}

\* not (not author_papers or "papers_old" not in author_papers)
HasPaperList(rec) == rec.found /\ "papers_old" \in rec.keys

\* _filter_papers_by_year: the papers with details, an abstract and a year
\* from start_year to end_year.
FilterPapersByYear(ps) ==
    {p \in ps : Details[p].abstract /\ start_year <= Details[p].year
                                     /\ Details[p].year <= end_year}

\* author_papers = self.controller.get_author_papers(author_name, org,
\* force_refresh): None, a fetched record or a cached one.
GetAuthorPapers(rec) ==
    /\ lpc = "get"
    /\ apos <= Len(authors_list)
    /\ rec \in {NoRecord} \cup FetchedRecords \cup CachedRecords
    /\ author_papers' = rec
    /\ got' = got \cup {<<authors_list[apos], rec>>}
    /\ lpc' = "test"
    /\ UNCHANGED <<authors_list, apos, batched, all_papers>>
    /\ UNCHANGED authorsOthers

\* The rest of the iteration: the author is skipped, or batch_save_papers is
\* called and the filtered papers are added to all_papers.
TestAndAdd ==
    /\ lpc = "test"
    /\ IF HasPaperList(author_papers)
       THEN /\ batched' = batched \cup {authors_list[apos]}
            /\ all_papers' = all_papers \cup
                  {<<authors_list[apos], p>> : p \in FilterPapersByYear(author_papers.papers)}
       ELSE UNCHANGED <<batched, all_papers>>
    /\ apos' = apos + 1
    /\ lpc' = IF apos = Len(authors_list) THEN "done" ELSE "get"
    /\ author_papers' = NoRecord
    /\ UNCHANGED <<authors_list, got>>
    /\ UNCHANGED authorsOthers

NextAuthors ==
    \/ \E rec \in {NoRecord} \cup FetchedRecords \cup CachedRecords : GetAuthorPapers(rec)
    \/ TestAndAdd

\* load_authors_data is called with a list of one or two authors.
InitAuthors ==
    /\ RetryAtRest
    /\ MatchAtRest
    /\ CacheAtRest
    /\ AuthorsOthersAtRest
    /\ authors_list \in {<<"x">>, <<"x", "y">>, <<"y", "x">>}
    /\ lpc = "get"
    /\ apos = 1
    /\ author_papers = NoRecord
    /\ got = {}
    /\ batched = {}
    /\ all_papers = {}

SpecAuthors == InitAuthors /\ [][NextAuthors]_vars

\* C22 as stated: every author for whom get_author_papers returned a record
\* has had batch_save_papers called and the papers of the record that pass
\* the filter added to the result, once the iteration for the author is over;
\* an author is skipped only when no record could be obtained.
C22_AsStated ==
    \A g \in got :
        (lpc = "test" /\ g[1] = authors_list[apos]) \/ ~g[2].found \/
            /\ g[1] \in batched
            /\ \A p \in FilterPapersByYear(g[2].papers) : <<g[1], p>> \in all_papers

(***************************************************************************)
(*   PaperKnowledgeGraphBuilder.extract_and_merge_keywords (gen.py)        *)
(***************************************************************************)

\* Calls of extract_and_merge_keywords in one behaviour.
MaxRuns == 3

\* What keywords_data["paper_keywords"] holds for a paper: nothing, the
\* keywords the LLM extracted, the paper's own keywords (existing_kw, the
\* fallback), or [].
StoredKeywords == {"absent", "extracted", "existing_kw", "empty"}

\* What a call of the LLM for a paper leads to: keywords, no response after
\* the retries or a response that does not parse, an empty response.
LlmOutcomes == {"keywords", "failed", "empty"}

\* keywords_data without any entry.
NoKeywords == [paper_keywords |-> [p \in PaperIds |-> "absent"], all_keywords |-> FALSE]

\* mutant: the cache of single papers is not consulted
IsCachedNever(kd, p) == FALSE

\* paper_id in self.keywords_data["paper_keywords"]
IsCached(kd, p) == kd.paper_keywords[p] # "absent"

\* _extract_keywords_from_paper for an outcome of the LLM call; a paper
\* without abstract gets existing_kw and no call is made.
ExtractedFor(p, outcome) ==
    IF ~Details[p].abstract THEN "existing_kw"
    ELSE IF outcome = "keywords" THEN "extracted"
    ELSE IF outcome = "empty" THEN "empty"
    ELSE "existing_kw"

\* The paper of the current iteration.
Paper == paper_list[kpos]

\* extract_and_merge_keywords is called: with "all_keywords" cached and
\* force_refresh unset it returns at once, otherwise the loop begins.
StartRun(f) ==
    /\ kpc = "idle"
    /\ runs < MaxRuns
    /\ runs' = runs + 1
    /\ kforce' = f
    /\ IF ~f /\ keywords_data.all_keywords
       THEN UNCHANGED <<kpc, kpos>>
       ELSE kpc' = "loop" /\ kpos' = 1
    /\ UNCHANGED <<paper_list, keywords_data, keywords_file, llm_sent>>
    /\ UNCHANGED keywordsOthers

\* An iteration for a paper whose keywords are cached, force_refresh unset:
\* the stored keywords are used.
UseCached ==
    /\ kpc = "loop"
    /\ kpos <= Len(paper_list)
    /\ ~kforce /\ IsCached(keywords_data, Paper)
    /\ kpos' = kpos + 1
    /\ UNCHANGED <<paper_list, kpc, kforce, keywords_data, keywords_file, llm_sent, runs>>
    /\ UNCHANGED keywordsOthers

\* An iteration that extracts: _extract_keywords_from_paper, the entry set
\* in keywords_data, _save_cache (which succeeds or returns False).
ExtractAndStore(outcome, saves) ==
    /\ kpc = "loop"
    /\ kpos <= Len(paper_list)
    /\ ~(~kforce /\ IsCached(keywords_data, Paper))
    /\ llm_sent' = IF Details[Paper].abstract
                   THEN [llm_sent EXCEPT ![Paper] = @ + 1]
                   ELSE llm_sent
    /\ keywords_data' = [keywords_data EXCEPT
                            !.paper_keywords[Paper] = ExtractedFor(Paper, outcome)]
    /\ keywords_file' = IF saves THEN keywords_data' ELSE keywords_file
    /\ kpos' = kpos + 1
    /\ UNCHANGED <<paper_list, kpc, kforce, runs>>
    /\ UNCHANGED keywordsOthers

\* After the last paper: the merged keywords are stored under
\* "all_keywords", saved and returned.
FinishRun(saves) ==
    /\ kpc = "loop"
    /\ kpos > Len(paper_list)
    /\ keywords_data' = [keywords_data EXCEPT !.all_keywords = TRUE]
    /\ keywords_file' = IF saves THEN keywords_data' ELSE keywords_file
    /\ kpc' = "idle"
    /\ UNCHANGED <<paper_list, kpos, kforce, llm_sent, runs>>
    /\ UNCHANGED keywordsOthers

\* The script ends or is killed, and is started again: __init__ loads
\* self.keywords_data from the file.
RunScriptAgain ==
    /\ kpc = "loop" \/ (kpc = "idle" /\ keywords_data # keywords_file)
    /\ keywords_data' = keywords_file
    /\ kpc' = "idle"
    /\ UNCHANGED <<paper_list, kpos, kforce, keywords_file, llm_sent, runs>>
    /\ UNCHANGED keywordsOthers

NextKeywords ==
    \/ \E f \in BOOLEAN : StartRun(f)
    \/ UseCached
    \/ \E outcome \in LlmOutcomes, saves \in BOOLEAN : ExtractAndStore(outcome, saves)
    \/ \E saves \in BOOLEAN : FinishRun(saves)
    \/ RunScriptAgain

\* The builder is constructed on a cache directory without keywords and
\* given two papers with an abstract or one with and one without.
InitKeywords ==
    /\ RetryAtRest
    /\ MatchAtRest
    /\ CacheAtRest
    /\ KeywordsOthersAtRest
    /\ paper_list \in {<<"p1", "p3">>, <<"p1", "p2">>}
    /\ kpc = "idle"
    /\ kpos = 0
    /\ kforce = FALSE
    /\ keywords_data = NoKeywords
    /\ keywords_file = NoKeywords
    /\ llm_sent = [p \in PaperIds |-> 0]
    /\ runs = 0

SpecKeywords == InitKeywords /\ [][NextKeywords]_vars

\* A step that sends the paper of the iteration to the LLM is a step of a
\* run with force_refresh set, or the paper has no entry in
\* keywords_data["paper_keywords"].
SentOnlyWhenForcedOrAbsent ==
    \A p \in PaperIds :
        llm_sent'[p] # llm_sent[p] =>
            kforce \/ keywords_data.paper_keywords[p] = "absent"

\* C23: with force_refresh unset, a paper that has an entry in
\* keywords_data["paper_keywords"] - extracted keywords, [] or the fallback
\* of a failed extraction - is not sent to the LLM; only a run with
\* force_refresh set sends it again.
C23_CachedPaperNotSentAgain == [][SentOnlyWhenForcedOrAbsent]_vars

\* C23 witness: the extraction of p1 failed in the first run and its own
\* keywords were stored; a second run without force_refresh has passed p1
\* without a call.
C23_Witness ==
    /\ runs = 2 /\ ~kforce
    /\ kpc = "loop" /\ kpos = 2
    /\ paper_list[1] = "p1"
    /\ keywords_data.paper_keywords["p1"] = "existing_kw"
    /\ ~keywords_data.all_keywords
    /\ llm_sent["p1"] = 1

(***************************************************************************)
(*        PaperKnowledgeGraphBuilder.load_paper_data (gen.py)              *)
(***************************************************************************)

\* The file of the current iteration, as a paper id.
PaperFile == all_json_files[dpos]

\* load_paper_data is called.
StartLoad(f) ==
    /\ dpc = "idle"
    /\ loads < MaxRuns
    /\ loads' = loads + 1
    /\ dforce' = f
    /\ dpc' = "loop"
    /\ dpos' = 1
    /\ UNCHANGED <<all_json_files, unreadable, paper_data, paper_cache, reported>>
    /\ UNCHANGED loadOthers

\* A paper that self.paper_data holds, force_refresh unset: skipped.
SkipCached ==
    /\ dpc = "loop"
    /\ dpos <= Len(all_json_files)
    /\ ~dforce /\ PaperFile \in paper_data
    /\ dpos' = dpos + 1
    /\ UNCHANGED <<all_json_files, unreadable, dpc, dforce, paper_data, paper_cache,
                   reported, loads>>
    /\ UNCHANGED loadOthers

\* The paper file is read: the paper is put into self.paper_data,
\* _save_cache is called - it saves, or prints and returns False - and the
\* paper is reported as read.
ReadAndStore(saves) ==
    /\ dpc = "loop"
    /\ dpos <= Len(all_json_files)
    /\ ~(~dforce /\ PaperFile \in paper_data)
    /\ PaperFile \notin unreadable
    /\ paper_data' = paper_data \cup {PaperFile}
    /\ paper_cache' = IF saves THEN paper_data' ELSE paper_cache
    /\ reported' = reported \cup {PaperFile}
    /\ dpos' = dpos + 1
    /\ UNCHANGED <<all_json_files, unreadable, dpc, dforce, loads>>
    /\ UNCHANGED loadOthers

\* The paper file cannot be read: the failure is printed and counted.
ReadFails ==
    /\ dpc = "loop"
    /\ dpos <= Len(all_json_files)
    /\ ~(~dforce /\ PaperFile \in paper_data)
    /\ PaperFile \in unreadable
    /\ dpos' = dpos + 1
    /\ UNCHANGED <<all_json_files, unreadable, dpc, dforce, paper_data, paper_cache,
                   reported, loads>>
    /\ UNCHANGED loadOthers

\* After the last file the papers held are returned.
FinishLoad ==
    /\ dpc = "loop"
    /\ dpos > Len(all_json_files)
    /\ dpc' = "idle"
    /\ UNCHANGED <<all_json_files, unreadable, dpos, dforce, paper_data, paper_cache,
                   reported, loads>>
    /\ UNCHANGED loadOthers

\* The script crashes or is killed in the loop, and is started again:
\* __init__ loads self.paper_data from the file.
KillAndRunAgain ==
    /\ dpc = "loop"
    /\ paper_data' = paper_cache
    /\ dpc' = "idle"
    /\ UNCHANGED <<all_json_files, unreadable, dpos, dforce, paper_cache, reported, loads>>
    /\ UNCHANGED loadOthers

NextLoad ==
    \/ \E f \in BOOLEAN : StartLoad(f)
    \/ SkipCached
    \/ \E saves \in BOOLEAN : ReadAndStore(saves)
    \/ ReadFails
    \/ FinishLoad
    \/ KillAndRunAgain

\* The builder is constructed on an empty cache directory; papers_dir holds
\* three paper files, some of which may not parse.
InitLoad ==
    /\ RetryAtRest
    /\ MatchAtRest
    /\ CacheAtRest
    /\ LoadOthersAtRest
    /\ all_json_files \in {<<"p1", "p2", "p3">>, <<"p3", "p1", "p2">>}
    /\ unreadable \in SUBSET {"p2"}
    /\ dpc = "idle"
    /\ dpos = 0
    /\ dforce = FALSE
    /\ paper_data = {}
    /\ paper_cache = {}
    /\ reported = {}
    /\ loads = 0

SpecLoad == InitLoad /\ [][NextLoad]_vars

\* C24 as stated: every paper that was reported as read is in the paper
\* cache file, from the report on and whatever happens later.
C24_AsStated == reported \subseteq paper_cache

(***************************************************************************)
(*        PDFTOCExtractorWithLLM.process_all_books (books_llm.py)          *)
(***************************************************************************)

\* range(9, max_process): the first page index of the scan.
FirstPage == 9

\* max_process = min(80, total_pages).
PageLimit == 80

\* The largest number of pages of a book of the directory.
MaxPages == 12

\* How often the script is run on the directory.
MaxBookRuns == 2

\* total_pages of a file for which PdfReader raises.
Unreadable == 0 - 1

BookFiles == {"b1.pdf", "b2.pdf"}

\* The page indices a scan can reach.
ScanPages == FirstPage .. (MaxPages - 1)

\* What _call_glm_api returns to _judge_page_is_toc: None after the retries,
\* a text json.loads rejects, or a JSON object with is_toc true or false.
JudgeResponses == {"none", "malformed", "toc", "not_toc"}

\* What _call_glm_api returns to _extract_toc_from_single_page: None, a text
\* json.loads rejects, a JSON object without a valid item, or one with items.
ExtractResponses == {"none", "malformed", "no_items", "items"}

\* self.page_cache.get(key, None) of a key that is absent.
NoEntry == [cached |-> FALSE, is_toc |-> FALSE, toc_items |-> <<>>, success |-> FALSE]

MinOf(a, b) == IF a <= b THEN a ELSE b

\* _get_page_cache
GetPageCache(cache, filename, n) == cache[<<filename, n>>]

\* _set_page_cache: the entry replaces the one of the key, and the whole
\* dictionary is written to page_cache.json.
PageCacheSet(cache, filename, n, new_entry) ==
    [cache EXCEPT ![<<filename, n>>] =
        [cached |-> TRUE, is_toc |-> new_entry.is_toc,
         toc_items |-> new_entry.toc_items, success |-> new_entry.success]]

\* _judge_page_is_toc: the answer, the page cache it leaves and whether the
\* LLM was called.
JudgePageIsToc(cache, filename, has_text, n, response) ==
    LET entry == GetPageCache(cache, filename, n)
    IN  IF entry.cached /\ entry.success
        THEN [is_toc |-> entry.is_toc, cache |-> cache, called |-> FALSE]
        ELSE IF ~has_text
        THEN [is_toc |-> FALSE,
              cache |-> PageCacheSet(cache, filename, n,
                          [is_toc |-> FALSE, toc_items |-> <<>>, success |-> TRUE]),
              called |-> FALSE]
        ELSE [is_toc |-> response = "toc",
              cache |-> PageCacheSet(cache, filename, n,
                          [is_toc |-> response = "toc", toc_items |-> <<>>,
                           success |-> response \in {"toc", "not_toc"}]),
              called |-> TRUE]

\* _extract_toc_from_single_page: the items, the page cache it leaves and
\* whether the LLM was called.  An item is written as the index of the page
\* it was extracted from.
ExtractTocFromSinglePage(cache, filename, has_text, n, response) ==
    LET entry == GetPageCache(cache, filename, n)
        toc_items == IF response = "items" THEN <<n>> ELSE <<>>
    IN  IF entry.cached /\ entry.success /\ Len(entry.toc_items) > 0
        THEN [toc_items |-> entry.toc_items, cache |-> cache, called |-> FALSE]
        ELSE IF ~has_text
        THEN [toc_items |-> <<>>,
              cache |-> PageCacheSet(cache, filename, n,
                          [is_toc |-> FALSE, toc_items |-> <<>>, success |-> TRUE]),
              called |-> FALSE]
        ELSE [toc_items |-> toc_items,
              cache |-> PageCacheSet(cache, filename, n,
                          [is_toc |-> IF entry.cached THEN entry.is_toc ELSE TRUE,
                           toc_items |-> toc_items,
                           success |-> response \in {"no_items", "items"}]),
              called |-> TRUE]

\* The page loop takes the break of the TOC region on every page.
EndsTocRegionNever(in_region, has_text, is_toc) == FALSE

\* The break of the page loop: inside the TOC region, a page without text or
\* a page judged not to be a TOC page.
EndsTocRegion(in_region, has_text, is_toc) ==
    in_region /\ (~has_text \/ ~is_toc)

\* seen / unique_toc: the first occurrence of every item, in order.
RECURSIVE UniqueToc(_, _)
UniqueToc(items, seen) ==
    IF items = <<>> THEN <<>>
    ELSE IF Head(items) \in seen THEN UniqueToc(Tail(items), seen)
    ELSE <<Head(items)>> \o UniqueToc(Tail(items), seen \cup {Head(items)})

\* unique_toc.sort(key=lambda x: x["page"]): a stable sort.
RECURSIVE SortToc(_)
SortToc(items) ==
    IF items = <<>> THEN <<>>
    ELSE LET least == CHOOSE i \in 1..Len(items) :
                          /\ \A j \in 1..Len(items) : items[i] <= items[j]
                          /\ \A j \in 1..(i - 1) : items[j] # items[i]
         IN  <<items[least]>> \o
             SortToc(SubSeq(items, 1, least - 1) \o SubSeq(items, least + 1, Len(items)))

BookFile == pdf_files[bidx]

IsBookProcessed(filename) == \E b \in book_cache : b[1] = filename

max_process == MinOf(PageLimit, total_pages[BookFile])

\* process_all_books begins: the files are listed.
StartBooks ==
    /\ bpc = "idle"
    /\ bruns < MaxBookRuns
    /\ pdf_files # <<>>
    /\ bpc' = "book"
    /\ bidx' = 1
    /\ bruns' = bruns + 1
    /\ UNCHANGED <<pdf_files, total_pages, page_num, in_toc_region, all_toc_items,
                   book_cache, page_cache, failed_records, scanned, ended>>
    /\ UNCHANGED booksOthers

\* if self._is_book_processed(filename): continue
SkipProcessedBook ==
    /\ bpc = "book"
    /\ bidx <= Len(pdf_files)
    /\ IsBookProcessed(BookFile)
    /\ bidx' = bidx + 1
    /\ UNCHANGED <<pdf_files, total_pages, bpc, page_num, in_toc_region, all_toc_items,
                   book_cache, page_cache, failed_records, scanned, ended, bruns>>
    /\ UNCHANGED booksOthers

\* PdfReader raises: the file is recorded as failed and the loop goes on.
UnreadablePdf ==
    /\ bpc = "book"
    /\ bidx <= Len(pdf_files)
    /\ ~IsBookProcessed(BookFile)
    /\ total_pages[BookFile] = Unreadable
    /\ failed_records' = Append(failed_records,
                            [filename |-> BookFile, reason |-> "unreadable"])
    /\ bidx' = bidx + 1
    /\ UNCHANGED <<pdf_files, total_pages, bpc, page_num, in_toc_region, all_toc_items,
                   book_cache, page_cache, scanned, ended, bruns>>
    /\ UNCHANGED booksOthers

\* The page loop of a readable book begins.
BeginScan ==
    /\ bpc = "book"
    /\ bidx <= Len(pdf_files)
    /\ ~IsBookProcessed(BookFile)
    /\ total_pages[BookFile] # Unreadable
    /\ page_num' = FirstPage
    /\ in_toc_region' = FALSE
    /\ all_toc_items' = <<>>
    /\ scanned' = {}
    /\ ended' = 0
    /\ bpc' = "page"
    /\ UNCHANGED <<pdf_files, total_pages, bidx, book_cache, page_cache,
                   failed_records, bruns>>
    /\ UNCHANGED booksOthers

\* _extract_single_page_text returns no text: the page is skipped before the
\* TOC region and ends the scan inside it.
PageWithoutText ==
    /\ bpc = "page"
    /\ ended = 0
    /\ page_num < max_process
    /\ scanned' = scanned \cup {<<page_num, "no_text">>}
    /\ IF EndsTocRegion(in_toc_region, FALSE, FALSE)
       THEN ended' = page_num /\ page_num' = page_num
       ELSE ended' = ended /\ page_num' = page_num + 1
    /\ UNCHANGED <<pdf_files, total_pages, bpc, bidx, in_toc_region, all_toc_items,
                   book_cache, page_cache, failed_records, bruns>>
    /\ UNCHANGED booksOthers

\* The page has text and is judged: a TOC page opens or continues the TOC
\* region and is extracted next; another page is passed over before the
\* region and ends the scan inside it.
JudgePage(response) ==
    /\ bpc = "page"
    /\ ended = 0
    /\ page_num < max_process
    /\ LET r == JudgePageIsToc(page_cache, BookFile, TRUE, page_num, response)
       IN  /\ page_cache' = r.cache
           /\ scanned' = scanned \cup
                  {<<page_num, IF r.is_toc THEN "toc" ELSE "not_toc">>}
           /\ IF r.is_toc
              THEN /\ in_toc_region' = TRUE
                   /\ bpc' = "extract"
                   /\ UNCHANGED <<page_num, ended>>
              ELSE /\ UNCHANGED <<in_toc_region, bpc>>
                   /\ IF EndsTocRegion(in_toc_region, TRUE, FALSE)
                      THEN ended' = page_num /\ page_num' = page_num
                      ELSE ended' = ended /\ page_num' = page_num + 1
    /\ UNCHANGED <<pdf_files, total_pages, bidx, all_toc_items, book_cache,
                   failed_records, bruns>>
    /\ UNCHANGED booksOthers

\* The items of a page judged to be a TOC page are extracted and collected.
ExtractPage(response) ==
    /\ bpc = "extract"
    /\ LET r == ExtractTocFromSinglePage(page_cache, BookFile, TRUE, page_num, response)
       IN  /\ page_cache' = r.cache
           /\ all_toc_items' = all_toc_items \o r.toc_items
    /\ page_num' = page_num + 1
    /\ bpc' = "page"
    /\ UNCHANGED <<pdf_files, total_pages, bidx, in_toc_region, book_cache,
                   failed_records, scanned, ended, bruns>>
    /\ UNCHANGED booksOthers

\* After the page loop: the book enters the book cache when items were
\* collected and the failure record otherwise; both are saved.
FinishBook ==
    /\ bpc = "page"
    /\ ended # 0 \/ page_num >= max_process
    /\ IF all_toc_items # <<>>
       THEN /\ book_cache' = {b \in book_cache : b[1] # BookFile} \cup
                                 {<<BookFile, SortToc(UniqueToc(all_toc_items, {}))>>}
            /\ UNCHANGED failed_records
       ELSE /\ failed_records' = Append(failed_records,
                                    [filename |-> BookFile, reason |-> "no_toc"])
            /\ UNCHANGED book_cache
    /\ bidx' = bidx + 1
    /\ bpc' = "book"
    /\ UNCHANGED <<pdf_files, total_pages, page_num, in_toc_region, all_toc_items,
                   page_cache, scanned, ended, bruns>>
    /\ UNCHANGED booksOthers

\* The file loop is over: process_all_books returns and the script ends.  The
\* next run loads the three files as this one saved them.
AllBooksDone ==
    /\ bpc = "book"
    /\ bidx > Len(pdf_files)
    /\ bpc' = "idle"
    /\ UNCHANGED <<pdf_files, total_pages, bidx, page_num, in_toc_region, all_toc_items,
                   book_cache, page_cache, failed_records, scanned, ended, bruns>>
    /\ UNCHANGED booksOthers

NextBooks ==
    \/ StartBooks
    \/ SkipProcessedBook
    \/ UnreadablePdf
    \/ BeginScan
    \/ PageWithoutText
    \/ \E response \in JudgeResponses : JudgePage(response)
    \/ \E response \in ExtractResponses : ExtractPage(response)
    \/ FinishBook
    \/ AllBooksDone

\* The extractor is constructed on an empty cache directory; books_dir holds
\* a book of MaxPages pages and a file that cannot be read or is too short to
\* be scanned.
InitBooks ==
    /\ RetryAtRest
    /\ MatchAtRest
    /\ CacheAtRest
    /\ BooksOthersAtRest
    /\ pdf_files = <<"b1.pdf", "b2.pdf">>
    /\ total_pages \in {[f \in BookFiles |-> IF f = "b1.pdf" THEN MaxPages ELSE n] :
                           n \in {Unreadable, FirstPage}}
    /\ bpc = "idle"
    /\ bidx = 0
    /\ page_num = 0
    /\ in_toc_region = FALSE
    /\ all_toc_items = <<>>
    /\ book_cache = {}
    /\ page_cache = [k \in BookFiles \X ScanPages |-> NoEntry]
    /\ failed_records = <<>>
    /\ scanned = {}
    /\ ended = 0
    /\ bruns = 0

SpecBooks == InitBooks /\ [][NextBooks]_vars

\* A step keeps every successful entry of the page cache successful, with
\* its is_toc value.
SuccessfulJudgementKept ==
    \A k \in BookFiles \X ScanPages :
        (page_cache[k].cached /\ page_cache[k].success) =>
            /\ page_cache'[k].success
            /\ page_cache'[k].is_toc = page_cache[k].is_toc

\* C25 as stated: once the page-cache entry of a page records a successful
\* judgement, no later operation on the page resets its success flag or
\* changes its is_toc value, so the page is never sent to the LLM for a
\* judgement again.
C25_AsStated == [][SuccessfulJudgementKept]_vars

\* The pages of the scan of the current book with the given outcome.
ScannedAs(outcome) == {s[1] : s \in {x \in scanned : x[2] = outcome}}

\* C26: the items of a book come from one contiguous run of pages.  The scan
\* looks at pages from index 9 upward, each at most once; it is in the TOC
\* region exactly when a page was judged a TOC page; the pages judged TOC
\* pages have no scanned page of another outcome between them; the first
\* page after the region opened that has no text or is judged non-TOC ends
\* the scan, and no page beyond it is looked at; every collected item comes
\* from a page judged a TOC page.
C26_OneContiguousRun ==
    /\ \A s \in scanned : s[1] >= FirstPage /\ s[1] <= page_num
    /\ \A s \in scanned, t \in scanned : s[1] = t[1] => s = t
    /\ in_toc_region <=> ScannedAs("toc") # {}
    /\ \A a \in ScannedAs("toc"), b \in ScannedAs("toc") :
           \A n \in a..b : n \in ScannedAs("toc")
    /\ \A s \in scanned :
           (s[2] # "toc" /\ \E a \in ScannedAs("toc") : a < s[1]) => ended = s[1]
    /\ ended # 0 =>
           /\ \E s \in scanned : s[1] = ended /\ s[2] # "toc"
           /\ \A s \in scanned : s[1] <= ended
           /\ page_num = ended
    /\ \A i \in 1..Len(all_toc_items) : all_toc_items[i] \in ScannedAs("toc")

\* A scan that collected an item and ended before the last page of the book.
C26_Witness ==
    /\ bpc = "page"
    /\ all_toc_items # <<>>
    /\ ended # 0
    /\ ended + 1 < max_process

\* C27 as stated: a filename occurs in the failure record at most once, over
\* any sequence of runs.
C27_AsStated ==
    \A i \in 1..Len(failed_records), j \in 1..Len(failed_records) :
        failed_records[i].filename = failed_records[j].filename => i = j

(***************************************************************************)
(*                 validate_commit.py, run as a script                     *)
(***************************************************************************)

InputFiles == {"valid", "invalid", "unreadable"}

\* What one call of run_audit does: it raises, or returns a list without
\* entries, a list whose entries are all classified valid, or a list with
\* an invalid or questionable entry.
AuditOutcomes == {"raises", "empty", "clean", "flagged"}

\* An exception leaves the script: the interpreter ends the process.
Uncaught ==
    /\ vpc' = "ended"
    /\ exit_status' = "uncaught"

\* The script begins by writing "true" to remove_stale.txt.
WriteTrueFirst ==
    /\ vpc = "start"
    /\ remove_stale' = "true"
    /\ vpc' = "metadata"
    /\ UNCHANGED <<pr_metadata_file, diff_file, api_key, pr_metadata_valid, csv_valid,
                   audit_result, vretries, audit_errors, exit_status>>
    /\ UNCHANGED validateOthers

\* pr_metadata_valid = process_pr_metadata(pr_metadata_path)
ProcessPrMetadata ==
    /\ vpc = "metadata"
    /\ IF pr_metadata_file = "unreadable"
       THEN Uncaught /\ UNCHANGED pr_metadata_valid
       ELSE /\ pr_metadata_valid' = (pr_metadata_file = "valid")
            /\ vpc' = "csv"
            /\ UNCHANGED exit_status
    /\ UNCHANGED <<pr_metadata_file, diff_file, api_key, remove_stale, csv_valid,
                   audit_result, vretries, audit_errors>>
    /\ UNCHANGED validateOthers

\* csv_valid = process_csv_diff(diff_path)
ProcessCsvDiff ==
    /\ vpc = "csv"
    /\ IF diff_file = "unreadable"
       THEN Uncaught /\ UNCHANGED csv_valid
       ELSE /\ csv_valid' = (diff_file = "valid")
            /\ vpc' = "key"
            /\ UNCHANGED exit_status
    /\ UNCHANGED <<pr_metadata_file, diff_file, api_key, remove_stale, pr_metadata_valid,
                   audit_result, vretries, audit_errors>>
    /\ UNCHANGED validateOthers

\* api_key = os.getenv("OPENAI_API_KEY"); without it EnvironmentError is
\* raised, with it the client is made and the retry loop prepared.
GetApiKey ==
    /\ vpc = "key"
    /\ IF ~api_key
       THEN Uncaught /\ UNCHANGED <<audit_result, vretries>>
       ELSE /\ audit_result' = ""
            /\ vretries' = retries_remaining
            /\ vpc' = "audit"
            /\ UNCHANGED exit_status
    /\ UNCHANGED <<pr_metadata_file, diff_file, api_key, remove_stale, pr_metadata_valid,
                   csv_valid, audit_errors>>
    /\ UNCHANGED validateOthers

\* One iteration of the retry loop: run_audit returns and the loop is left,
\* or it raises and a retry is used up; the loop also ends without retries.
RunAudit(outcome) ==
    /\ vpc = "audit"
    /\ vretries > 0
    /\ IF outcome = "raises"
       THEN /\ vretries' = vretries - 1
            /\ audit_errors' = audit_errors + 1
            /\ vpc' = IF vretries - 1 > 0 THEN "audit" ELSE "decide"
            /\ UNCHANGED audit_result
       ELSE /\ audit_result' = outcome
            /\ vpc' = "decide"
            /\ UNCHANGED <<vretries, audit_errors>>
    /\ UNCHANGED <<pr_metadata_file, diff_file, api_key, remove_stale, pr_metadata_valid,
                   csv_valid, exit_status>>
    /\ UNCHANGED validateOthers

\* auditing_error as the loop over the entries of audit_result computes it.
AuditingError(audit) == audit = "flagged"

\* The entries are printed, then mark_failed and sys.exit(-1) or
\* mark_succeeded and sys.exit(0).
MarkAndExit ==
    /\ vpc = "decide"
    /\ IF ~pr_metadata_valid \/ ~csv_valid \/ AuditingError(audit_result)
       THEN remove_stale' = "false" /\ exit_status' = "-1"
       ELSE remove_stale' = "true" /\ exit_status' = "0"
    /\ vpc' = "ended"
    /\ UNCHANGED <<pr_metadata_file, diff_file, api_key, pr_metadata_valid, csv_valid,
                   audit_result, vretries, audit_errors>>
    /\ UNCHANGED validateOthers

NextValidate ==
    \/ WriteTrueFirst
    \/ ProcessPrMetadata
    \/ ProcessCsvDiff
    \/ GetApiKey
    \/ \E outcome \in AuditOutcomes : RunAudit(outcome)
    \/ MarkAndExit

\* The script is started on the two input files, in a directory where
\* remove_stale.txt may be left from an earlier run.
InitValidate ==
    /\ RetryAtRest
    /\ MatchAtRest
    /\ CacheAtRest
    /\ ValidateOthersAtRest
    /\ pr_metadata_file \in InputFiles
    /\ diff_file \in InputFiles
    /\ api_key \in BOOLEAN
    /\ vpc = "start"
    /\ remove_stale \in {"absent", "true", "false"}
    /\ pr_metadata_valid = FALSE
    /\ csv_valid = FALSE
    /\ audit_result = ""
    /\ vretries = 0
    /\ audit_errors = 0
    /\ exit_status = "running"

SpecValidate == InitValidate /\ [][NextValidate]_vars

\* The run ended with a failed check or with an uncaught error.
EndedWithFailureOrError ==
    /\ vpc = "ended"
    /\ \/ exit_status \in {"uncaught", "-1"}
       \/ pr_metadata_file # "valid"
       \/ diff_file # "valid"
       \/ audit_result = "flagged"

\* The three validations completed without a failed check and an error.
AllChecksPassed ==
    /\ pr_metadata_file = "valid" /\ pr_metadata_valid
    /\ diff_file = "valid" /\ csv_valid
    /\ audit_result \in {"empty", "clean"}

\* C28 as stated: when the process has ended, remove_stale.txt contains
\* "true" only if the three validations completed without a failed check
\* and without an error, and it contains "false" after every run that ended
\* with a failed check or an uncaught error.
C28_AsStated ==
    vpc = "ended" =>
        /\ remove_stale = "true" => AllChecksPassed
        /\ EndedWithFailureOrError => remove_stale = "false"

(***************************************************************************)
(*                  IEEEScraper._click_and_wait (pa.py)                    *)
(***************************************************************************)

\* The largest retry argument of a call.
MaxClickRetry == 4

\* How the try block ends: it completes, it raises one of TimeoutException,
\* ElementClickInterceptedException and StaleElementReferenceException, or
\* it raises another exception, which no handler of the function catches.
NativeOutcomes == {"clicked", "caught", "other"}

\* How the JavaScript click ends: it completes or it raises; the handler
\* catches every Exception.
JsOutcomes == {"clicked", "raised"}

\* The recursive call is made with the same retry count.
RetryOfRecursiveCallSame(n) == n

\* self._click_and_wait(element_locator, wait_condition, retry - 1)
RetryOfRecursiveCall(n) == n - 1

\* retry of the innermost active call.
CurrentRetry == cstack[Len(cstack)]

\* _click_and_wait(locator, condition, retry = click_retry) is called.
CallClick ==
    /\ cpc = "idle"
    /\ cstack' = <<click_retry>>
    /\ cpc' = "native"
    /\ UNCHANGED <<click_retry, native_clicks, js_clicks, click_result>>
    /\ UNCHANGED clickOthers

\* The try block: wait until clickable, scroll, click, wait for the
\* condition.  It returns True, is caught by the handler, which returns
\* False when retry is 0 and tries the JavaScript click otherwise, or leaves
\* the function with an exception.
NativeClick(outcome) ==
    /\ cpc = "native"
    /\ native_clicks' = native_clicks + 1
    /\ IF outcome = "clicked"
       THEN cpc' = "return" /\ click_result' = "True"
       ELSE IF outcome = "other"
       THEN cpc' = "return" /\ click_result' = "raised"
       ELSE IF CurrentRetry > 0
       THEN cpc' = "js" /\ UNCHANGED click_result
       ELSE cpc' = "return" /\ click_result' = "False"
    /\ UNCHANGED <<click_retry, cstack, js_clicks>>
    /\ UNCHANGED clickOthers

\* The JavaScript click: find the element again, click it by script, wait
\* for the condition.  It returns True, or the function calls itself.
JsClick(outcome) ==
    /\ cpc = "js"
    /\ js_clicks' = js_clicks + 1
    /\ IF outcome = "clicked"
       THEN /\ cpc' = "return"
            /\ click_result' = "True"
            /\ UNCHANGED cstack
       ELSE /\ cstack' = Append(cstack, RetryOfRecursiveCall(CurrentRetry))
            /\ cpc' = "native"
            /\ UNCHANGED click_result
    /\ UNCHANGED <<click_retry, native_clicks>>
    /\ UNCHANGED clickOthers

\* The innermost call returns, or is left by the exception, to its caller:
\* return self._click_and_wait(...) passes the result on.
ReturnClick ==
    /\ cpc = "return"
    /\ cstack' = SubSeq(cstack, 1, Len(cstack) - 1)
    /\ cpc' = IF Len(cstack) > 1 THEN "return" ELSE "done"
    /\ UNCHANGED <<click_retry, native_clicks, js_clicks, click_result>>
    /\ UNCHANGED clickOthers

NextClick ==
    \/ CallClick
    \/ \E outcome \in NativeOutcomes : NativeClick(outcome)
    \/ \E outcome \in JsOutcomes : JsClick(outcome)
    \/ ReturnClick

\* A call with a retry count between 0 and MaxClickRetry is about to be made.
InitClick ==
    /\ RetryAtRest
    /\ MatchAtRest
    /\ CacheAtRest
    /\ ClickOthersAtRest
    /\ click_retry \in 0..MaxClickRetry
    /\ cstack = <<>>
    /\ cpc = "idle"
    /\ native_clicks = 0
    /\ js_clicks = 0
    /\ click_result = "none"

\* Every driver call returns or raises, so the interpreter always takes the
\* next step of the call.
SpecClick == InitClick /\ [][NextClick]_vars /\ WF_vars(NextClick)

\* A call made inside _click_and_wait has a smaller retry count than its
\* caller.
RecursionDecreasesRetry ==
    Len(cstack') > Len(cstack) /\ Len(cstack) > 0 =>
        cstack'[Len(cstack')] < cstack[Len(cstack)]

\* The attempts made so far are within the budget of the call, and one more
\* native attempt than JavaScript attempts is the most that is made.
ClickAttemptsBounded ==
    /\ native_clicks <= click_retry + 1
    /\ js_clicks <= click_retry
    /\ \A i \in 1..Len(cstack) : cstack[i] = click_retry - (i - 1) /\ cstack[i] >= 0

\* The result of a call that is over: True right after the one attempt that
\* succeeded, False only when the retry count had reached 0 and every
\* attempt failed.
ClickResultRight ==
    /\ click_result = "False" =>
           native_clicks = click_retry + 1 /\ js_clicks = click_retry
    /\ click_result = "True" =>
           native_clicks \in {js_clicks, js_clicks + 1}
    /\ cpc = "done" => click_result \in {"True", "False", "raised"}

\* C29: _click_and_wait(locator, condition, retry = n) terminates; it makes
\* at most n + 1 native and at most n JavaScript click attempts, returns
\* True at the first attempt that succeeds and False once the retry count
\* has reached 0, and every recursive call has a smaller retry count.
C29_ClickTerminates ==
    /\ [](ClickAttemptsBounded /\ ClickResultRight)
    /\ [][RecursionDecreasesRetry]_vars
    /\ <>(cpc = "done")

\* A call with retries that used up its whole budget and returned False.
C29_Witness ==
    /\ cpc = "done"
    /\ click_retry = MaxClickRetry - 1
    /\ click_result = "False"
    /\ native_clicks = click_retry + 1
    /\ js_clicks = click_retry

(***************************************************************************)
(*             IEEEScraper.get_paper_links_from_issue (pa.py)              *)
(***************************************************************************)

\* max_pages = 10
max_pages == 10

\* The paper ids of the site are 1..MaxIds.
MaxIds == 11

\* The totals the issue page announces; 0 stands for none found.
Totals == {0, 3}

RangeOf(seq) == {seq[i] : i \in 1..Len(seq)}

NoDuplicate(seq) == \A i \in 1..Len(seq), j \in 1..Len(seq) : seq[i] = seq[j] => i = j

\* The largest id seen so far, 0 when none.
Frontier(seq) == IF seq = <<>> THEN 0 ELSE CHOOSE m \in RangeOf(seq) : \A x \in RangeOf(seq) : x <= m

\* What _extract_paper_ids_from_page can return, a list without repetition:
\* the next one or two ids of the site that were not seen yet, in either
\* order, or none of them, with the id seen last before or after them when
\* the page shows it again.
PageResults(seq) ==
    LET m == Frontier(seq)
        unseen == {<<>>} \cup
                  (IF m + 1 <= MaxIds THEN {<<m + 1>>} ELSE {}) \cup
                  (IF m + 2 <= MaxIds THEN {<<m + 1, m + 2>>, <<m + 2, m + 1>>} ELSE {})
        again == IF seq = <<>> THEN {} ELSE {<<seq[Len(seq)]>>}
    IN  unseen \cup {o \o u : o \in again, u \in unseen}
               \cup {u \o o : o \in again, u \in unseen}

\* Every id of the page is appended, seen before or not.
AppendEveryId(seq, ids) == seq \o ids

\* for paper_id in paper_ids: if paper_id not in all_paper_ids: append
RECURSIVE AppendNewIds(_, _)
AppendNewIds(seq, ids) ==
    IF ids = <<>> THEN seq
    ELSE AppendNewIds(IF Head(ids) \in RangeOf(seq) THEN seq ELSE Append(seq, Head(ids)),
                      Tail(ids))

\* The break test after a page.
StopAfterPage(total, seq, new_count) ==
    (total > 0 /\ Len(seq) >= total) \/ new_count = 0

\* The call begins: the issue page cannot be loaded and [] is returned.
GetSoupFails ==
    /\ gpc = "idle"
    /\ returned_ids' = <<>>
    /\ gpc' = "done"
    /\ UNCHANGED <<total_papers, all_paper_ids, current_page, paper_ids, new_ids_count,
                   issue_cache, pages_done, moved>>
    /\ UNCHANGED issueOthers

\* The call begins: no cache entry is used, the issue page is loaded, the
\* announced total is read and the page loop prepared.
StartIssue(total) ==
    /\ gpc = "idle"
    /\ total_papers' = total
    /\ all_paper_ids' = <<>>
    /\ current_page' = 1
    /\ gpc' = "page"
    /\ UNCHANGED <<paper_ids, new_ids_count, issue_cache, returned_ids, pages_done, moved>>
    /\ UNCHANGED issueOthers

\* One result page: its ids are extracted, the new ones appended, and the
\* break test made.
CollectPage(ids) ==
    /\ gpc = "page"
    /\ current_page <= max_pages
    /\ paper_ids' = ids
    /\ all_paper_ids' = AppendNewIds(all_paper_ids, ids)
    /\ new_ids_count' = Len(all_paper_ids') - Len(all_paper_ids)
    /\ pages_done' = pages_done + 1
    /\ gpc' = IF StopAfterPage(total_papers, all_paper_ids', new_ids_count')
              THEN "save" ELSE "next"
    /\ UNCHANGED <<total_papers, current_page, issue_cache, returned_ids, moved>>
    /\ UNCHANGED issueOthers

\* if not self._go_to_next_page(current_page): break; current_page += 1
GoToNextPage(ok) ==
    /\ gpc = "next"
    /\ moved' = ok
    /\ IF ok
       THEN current_page' = current_page + 1 /\ gpc' = "page"
       ELSE current_page' = current_page /\ gpc' = "save"
    /\ UNCHANGED <<total_papers, all_paper_ids, paper_ids, new_ids_count, issue_cache,
                   returned_ids, pages_done>>
    /\ UNCHANGED issueOthers

\* After the loop: the list is saved, which may fail without an exception,
\* and returned.
SaveAndReturn(saves) ==
    /\ gpc = "save" \/ (gpc = "page" /\ current_page > max_pages)
    /\ issue_cache' = IF saves THEN [saved |-> TRUE, paper_ids |-> all_paper_ids]
                      ELSE issue_cache
    /\ returned_ids' = all_paper_ids
    /\ gpc' = "done"
    /\ UNCHANGED <<total_papers, all_paper_ids, current_page, paper_ids, new_ids_count,
                   pages_done, moved>>
    /\ UNCHANGED issueOthers

\* A later call with force_refresh = False finds the cache file and returns
\* its list.
ReturnCached ==
    /\ gpc = "done"
    /\ issue_cache.saved
    /\ returned_ids' = issue_cache.paper_ids
    /\ gpc' = "cached"
    /\ UNCHANGED <<total_papers, all_paper_ids, current_page, paper_ids, new_ids_count,
                   issue_cache, pages_done, moved>>
    /\ UNCHANGED issueOthers

NextIssue ==
    \/ GetSoupFails
    \/ \E total \in Totals : StartIssue(total)
    \/ \E ids \in PageResults(all_paper_ids) : CollectPage(ids)
    \/ \E ok \in BOOLEAN : GoToNextPage(ok)
    \/ \E saves \in BOOLEAN : SaveAndReturn(saves)
    \/ ReturnCached

\* The scraper is about to be asked for an issue that has no cache file.
InitIssue ==
    /\ RetryAtRest
    /\ MatchAtRest
    /\ CacheAtRest
    /\ IssueOthersAtRest
    /\ gpc = "idle"
    /\ total_papers = 0
    /\ all_paper_ids = <<>>
    /\ current_page = 0
    /\ paper_ids = <<>>
    /\ new_ids_count = 0
    /\ issue_cache = [saved |-> FALSE, paper_ids |-> <<>>]
    /\ returned_ids = <<>>
    /\ pages_done = 0
    /\ moved = FALSE

SpecIssue == InitIssue /\ [][NextIssue]_vars

\* The position of an id in a list.
IndexIn(seq, x) == CHOOSE i \in 1..Len(seq) : seq[i] = x

\* A step that processes a page: fewer than max_pages pages were processed
\* before, and after the first page the page before it yielded a new id, did
\* not reach the announced total, and the move to this page succeeded.  The
\* ids known before keep their places, the page's unseen ids follow them in
\* the order of the page, and nothing else is added.
PageStepRight ==
    pages_done' > pages_done =>
        /\ pages_done < max_pages
        /\ pages_done > 0 =>
               /\ new_ids_count > 0
               /\ ~(total_papers > 0 /\ Len(all_paper_ids) >= total_papers)
               /\ moved
        /\ SubSeq(all_paper_ids', 1, Len(all_paper_ids)) = all_paper_ids
        /\ RangeOf(all_paper_ids') = RangeOf(all_paper_ids) \cup RangeOf(paper_ids')
        /\ \A i \in (Len(all_paper_ids) + 1)..Len(all_paper_ids') :
               \A j \in (i + 1)..Len(all_paper_ids') :
                   IndexIn(paper_ids', all_paper_ids'[i]) < IndexIn(paper_ids', all_paper_ids'[j])

\* C30: at most max_pages result pages are processed for an issue; no page
\* is processed after one that yielded no new id, after the announced total
\* was reached, or after a failed move to the next page; the list that is
\* collected, returned and cached has no duplicate and is in first-seen
\* order.
C30_PagesBoundedNoDuplicates ==
    /\ [](/\ pages_done <= max_pages
          /\ NoDuplicate(all_paper_ids)
          /\ NoDuplicate(returned_ids)
          /\ NoDuplicate(issue_cache.paper_ids)
          /\ gpc \in {"done", "cached"} /\ issue_cache.saved =>
                 issue_cache.paper_ids = returned_ids)
    /\ [][PageStepRight]_vars

\* A call that processed all max_pages pages, met an id again on the way,
\* and returned its list.
C30_Witness ==
    /\ gpc = "done"
    /\ pages_done = max_pages
    /\ issue_cache.saved
    /\ Len(returned_ids) > max_pages
    /\ returned_ids[1] > returned_ids[2]

====
